---- MODULE Spec2Model ----
(***************************************************************************)
(* Model of the Pikic template renderer (src/pikic.ts), of the renderer it  *)
(* was made from, Termic (src/termic.ts), and of their serializer          *)
(* (src/xml.ts).  Termic.local is Pikic.local with the root tag `term`,    *)
(* the parser's default options, and its own handleConditionals; a process *)
(* runs one of the two, and the stretches of code they have in common are  *)
(* modelled once.                                                          *)
(*                                                                         *)
(* Strings are sequences of tokens.  The characters the code's regular     *)
(* expressions and escapes look at, $ { } ( ) and the quote, ampersand and *)
(* angle brackets, are tokens of their own; every other token is a word    *)
(* that contains none of them.  The empty sequence stands for both the     *)
(* empty string and undefined: the code only tests such values for         *)
(* truthiness.                                                             *)
(*                                                                         *)
(* Elements live in a heap (id -> element), as JavaScript objects do: an   *)
(* element has an identity, a parent reference and an array of child       *)
(* references, and the passes rewrite them in place.                       *)
(***************************************************************************)
EXTENDS Integers, Sequences, FiniteSets, TLC

VARIABLES
    heap,           \* [h |-> id -> element, n |-> next free id]
    cache,          \* Pikic.cache: key -> sequence of element ids
    mode,           \* which renderer the process runs and the entry files it serves
    rendersLeft,    \* calls of Pikic.local the process still accepts
    pc,             \* per call: position in Pikic.local
    filePath,       \* per call: argument filePath
    context,        \* per call: argument context
    file,           \* per call: the awaited parse result
    rootElement,    \* per call: id of rootElement, 0 before ingestion
    imports,        \* per call: the array imports
    components,     \* per call: the array components
    lists,          \* per call: the array lists
    cursor,         \* per call: index of the running for/forEach
    safetyBreaker,  \* per call: the counter safetyBreaker
    walk,           \* per call: the stack and the finds of a running tree walk
    result          \* per call: what the call returned or threw

vars == <<heap, cache, mode, rendersLeft, pc, filePath, context, file,
          rootElement, imports, components, lists, cursor, safetyBreaker,
          walk, result>>

(***************************************************************************)
(* Bounds of the model.                                                    *)
(***************************************************************************)
MaxItems == 2       \* longest context array
MaxRenders == 2     \* calls of Pikic.local in one process (SpecSeq)
MaxSteps == 32      \* steps of a tree walk taken in one transition

(***************************************************************************)
(* Program constants.                                                      *)
(***************************************************************************)
SafetyCeiling == 100

ALL_BASIC_ELEMENTS == {"container", "input", "text", "link"}
ALL_ELEMENTS == ALL_BASIC_ELEMENTS \cup {"import", "list", "piko", "action", "br", "if"}

TERMIC_ALL_ELEMENTS ==
    ALL_BASIC_ELEMENTS \cup {"import", "list", "term", "action", "br", "if"}

Calls == {1, 2}

\* The process runs Termic.local; else it runs Pikic.local.
Termic == mode = "termic"

\* ALL_ELEMENTS and the name of the root tag, of the renderer that runs.
KnownElements == IF Termic THEN TERMIC_ALL_ELEMENTS ELSE ALL_ELEMENTS
RootTag == IF Termic THEN "term" ELSE "piko"

(***************************************************************************)
(* Attribute maps and other JavaScript objects with string keys: a         *)
(* sequence of <<key, value>> pairs in insertion order, keys unique.       *)
(***************************************************************************)
Has(obj, k) == \E i \in 1..Len(obj) : obj[i][1] = k

Get(obj, k) ==
    IF Has(obj, k)
    THEN obj[CHOOSE i \in 1..Len(obj) : obj[i][1] = k][2]
    ELSE << >>

RECURSIVE Flatten(_)
Flatten(ss) == IF ss = << >> THEN << >> ELSE Head(ss) \o Flatten(Tail(ss))

IndexOf(seq, x) ==
    IF \E i \in 1..Len(seq) : seq[i] = x
    THEN CHOOSE i \in 1..Len(seq) : seq[i] = x /\ \A j \in 1..(i-1) : seq[j] # x
    ELSE 0

\* A variant of Splice that inserts after the element instead of replacing it.
SpliceAfter(seq, i, repl) == SubSeq(seq, 1, i) \o repl \o SubSeq(seq, i+1, Len(seq))

Splice(seq, i, repl) == SubSeq(seq, 1, i-1) \o repl \o SubSeq(seq, i+1, Len(seq))

Contains(s, a, b) == \E i \in 1..(Len(s)-1) : s[i] = a /\ s[i+1] = b

(***************************************************************************)
(* Elements (PikoElement) and the heap.  parent = 0 is an undefined        *)
(* parent, listIndex = -1 an undefined __listIndex; hasProps and hasItem   *)
(* tell whether __props and __listItem are set.                            *)
(***************************************************************************)
PikoElement(tag, attributes, textContent, parent) ==
    [tag |-> tag, attributes |-> attributes, children |-> << >>,
     parent |-> parent, textContent |-> textContent,
     imported |-> FALSE, fromOrigin |-> << >>,
     hasProps |-> FALSE, props |-> << >>,
     hasItem |-> FALSE, listItem |-> << >>, listIndex |-> -1]

\* TermElement (src/types.ts) has the same fields.
TermElement(tag, attributes, textContent, parent) ==
    PikoElement(tag, attributes, textContent, parent)

EmptyHeap == [h |-> << >>, n |-> 1]

\* A new object: the heap with the element stored under the next free id.
Alloc(M, element) == [h |-> M.h @@ (M.n :> element), n |-> M.n + 1]

\* Assignment to one field of one object.
SetChildren(M, id, ids) == [M EXCEPT !.h[id].children = ids]
SetParent(M, id, p) == [M EXCEPT !.h[id].parent = p]

RECURSIVE SetParents(_, _, _)
SetParents(M, ids, p) ==
    IF ids = << >> THEN M ELSE SetParents(SetParent(M, Head(ids), p), Tail(ids), p)

(***************************************************************************)
(* convertXMLToPikoElement for the parser's explicitChildren output: an    *)
(* xmlData value is [name, attrs, text, children], children in document    *)
(* order.  Returns the heap and the id of the new element.                 *)
(***************************************************************************)
RECURSIVE convertXMLToPikoElement(_, _, _, _)
RECURSIVE ConvertChildren(_, _, _)
convertXMLToPikoElement(M, xmlData, tag, parent) ==
    LET id == M.n
        M1 == Alloc(M, PikoElement(tag, xmlData.attrs, xmlData.text, parent))
        r == ConvertChildren(M1, xmlData.children, id)
    IN  [M |-> SetChildren(r.M, id, r.ids), id |-> id]

ConvertChildren(M, kids, parent) ==
    IF kids = << >>
    THEN [M |-> M, ids |-> << >>]
    ELSE LET c == convertXMLToPikoElement(M, Head(kids), Head(kids).name, parent)
             r == ConvertChildren(c.M, Tail(kids), parent)
         IN  [ids |-> <<c.id>> \o r.ids, M |-> r.M]

(***************************************************************************)
(* The parse result of an imported file goes through the fallback branch:  *)
(* the result object has one entry, the root element under its name.       *)
(***************************************************************************)
ConvertImportDoc(M, importDoc) ==
    LET id == M.n
        M1 == Alloc(M, PikoElement("piko", << >>, << >>, 0))
        c == convertXMLToPikoElement(M1, importDoc.root, importDoc.root.name, id)
    IN  [M |-> SetChildren(c.M, id, <<c.id>>), id |-> id]

(***************************************************************************)
(* The parser as Termic.local sets it up, `new Parser()` with the          *)
(* library's defaults: an element without attributes and without children  *)
(* is the string of its text, the empty string when it has none; any other *)
(* element is an object with its attributes under $, its text under _ and, *)
(* for each tag among its children in order of first appearance, the array *)
(* of the children with that tag.                                          *)
(***************************************************************************)
RECURSIVE TagsInOrder(_)
TagsInOrder(kids) ==
    IF kids = << >> THEN << >>
    ELSE LET rest == TagsInOrder(SubSeq(kids, 1, Len(kids) - 1))
             last == kids[Len(kids)].name
         IN  IF \E i \in 1..Len(rest) : rest[i] = last THEN rest
             ELSE Append(rest, last)

RECURSIVE DefaultParser(_)
DefaultParser(x) ==
    IF x.attrs = << >> /\ x.children = << >>
    THEN [isString |-> TRUE, string |-> x.text, attrs |-> << >>, text |-> << >>,
          groups |-> << >>]
    ELSE LET tags == TagsInOrder(x.children)
             group(g) == SelectSeq(x.children, LAMBDA c : c.name = tags[g])
         IN  [isString |-> FALSE, string |-> << >>, attrs |-> x.attrs,
              text |-> x.text,
              groups |-> [g \in 1..Len(tags) |->
                            <<tags[g], [k \in 1..Len(group(g)) |->
                                           DefaultParser(group(g)[k])]>>]]

(***************************************************************************)
(* convertXMLToTermElement: the children are made group by group; a string *)
(* becomes a `text` element whatever its tag was.                          *)
(***************************************************************************)
RECURSIVE convertXMLToTermElement(_, _, _, _)
RECURSIVE ConvertGroups(_, _, _)
RECURSIVE ConvertItems(_, _, _, _)
convertXMLToTermElement(M, xmlData, tag, parent) ==
    LET id == M.n
        M1 == Alloc(M, TermElement(tag, xmlData.attrs, xmlData.text, parent))
        r == ConvertGroups(M1, xmlData.groups, id)
    IN  [M |-> SetChildren(r.M, id, r.ids), id |-> id]

ConvertGroups(M, groups, parent) ==
    IF groups = << >>
    THEN [M |-> M, ids |-> << >>]
    ELSE LET g == ConvertItems(M, Head(groups)[1], Head(groups)[2], parent)
             r == ConvertGroups(g.M, Tail(groups), parent)
         IN  [ids |-> g.ids \o r.ids, M |-> r.M]

ConvertItems(M, childTag, items, parent) ==
    IF items = << >>
    THEN [M |-> M, ids |-> << >>]
    ELSE LET childItem == Head(items)
             c == IF childItem.isString
                  THEN [M |-> Alloc(M, TermElement("text", << >>, childItem.string,
                                                   parent)),
                        id |-> M.n]
                  ELSE convertXMLToTermElement(M, childItem, childTag, parent)
             r == ConvertItems(c.M, childTag, Tail(items), parent)
         IN  [ids |-> <<c.id>> \o r.ids, M |-> r.M]

\* termic.ts line 118: the parse result has one entry, the root element
\* under its name; a root that is a string gives no child.
ConvertTermImportDoc(M, importDoc) ==
    LET id == M.n
        M1 == Alloc(M, TermElement("term", << >>, << >>, 0))
        parsed == DefaultParser(importDoc.root)
        c == convertXMLToTermElement(M1, parsed, importDoc.root.name, id)
    IN  IF parsed.isString THEN [M |-> M1, id |-> id]
        ELSE [M |-> SetChildren(c.M, id, <<c.id>>), id |-> id]

(***************************************************************************)
(* deepClonePikoElement: copies every field but __listIndex; the copy's    *)
(* children are copies whose parent is the copy.                           *)
(***************************************************************************)
\* A variant of deepClonePikoElement that hands out the element itself.
SameElement(M, element, newParent) == [M |-> M, id |-> element]

RECURSIVE deepClonePikoElement(_, _, _)
RECURSIVE CloneChildren(_, _, _)
deepClonePikoElement(M, element, newParent) ==
    LET id == M.n
        e == M.h[element]
        cloned == [e EXCEPT !.children = << >>, !.parent = newParent,
                            !.listIndex = -1]
        r == CloneChildren(Alloc(M, cloned), e.children, id)
    IN  [M |-> SetChildren(r.M, id, r.ids), id |-> id]

CloneChildren(M, ids, newParent) ==
    IF ids = << >>
    THEN [M |-> M, ids |-> << >>]
    ELSE LET c == deepClonePikoElement(M, Head(ids), newParent)
             r == CloneChildren(c.M, Tail(ids), newParent)
         IN  [ids |-> <<c.id>> \o r.ids, M |-> r.M]

(***************************************************************************)
(* getAllImports, getAllComponents and getAllLists.  Each returns the      *)
(* matching children of the element, then what it collects under each      *)
(* child in turn.  The recursion is run on an explicit stack, one frame    *)
(* [node, i, len] per active forEach, so that a walk over a deep tree can  *)
(* be cut into slices: entering an element appends its matching children   *)
(* and pushes its frame, a step moves the top frame to its next child and  *)
(* enters it.  The three walks read the same tree in the same order and    *)
(* share the stack.                                                        *)
(***************************************************************************)

IsPendingImport(e) == e.tag = "import" /\ ~e.imported
IsComponent(e) == e.tag \notin KnownElements /\ e.tag # "fragment"
IsList(e) == e.tag = "list"

Frame(h, element) == [node |-> element, i |-> 1, len |-> Len(h[element].children)]

Exhausted(h, frame) == frame.i > frame.len \/ frame.i > Len(h[frame.node].children)

NoWalk == [stack |-> << >>, imports |-> << >>, components |-> << >>, lists |-> << >>]

CollectEnter(h, W, element) ==
    [stack |-> Append(W.stack, Frame(h, element)),
     imports |-> W.imports \o SelectSeq(h[element].children, LAMBDA c : IsPendingImport(h[c])),
     components |-> W.components \o SelectSeq(h[element].children, LAMBDA c : IsComponent(h[c])),
     lists |-> W.lists \o SelectSeq(h[element].children, LAMBDA c : IsList(h[c]))]

CollectStep(h, W) ==
    LET top == W.stack[Len(W.stack)]
    IN  IF Exhausted(h, top)
        THEN [W EXCEPT !.stack = SubSeq(W.stack, 1, Len(W.stack) - 1)]
        ELSE CollectEnter(h, [W EXCEPT !.stack[Len(W.stack)].i = top.i + 1],
                          h[top.node].children[top.i])

\* At most `budget` steps of the walk; a negative budget never runs out.
RECURSIVE CollectRun(_, _, _)
CollectRun(h, W, budget) ==
    IF W.stack = << >> \/ budget = 0 THEN W
    ELSE CollectRun(h, CollectStep(h, W), budget - 1)

Collected(h, element) == CollectRun(h, CollectEnter(h, NoWalk, element), -1)

getAllImports(h, element) == Collected(h, element).imports
getAllComponents(h, element) == Collected(h, element).components
getAllLists(h, element) == Collected(h, element).lists

\* The children of the elements of a set.
ChildrenOf(h, ids) ==
    UNION {{h[x].children[i] : i \in 1..Len(h[x].children)} : x \in ids}

\* The elements reachable from an element through children, itself included
\* (three generations are taken at a time, which keeps the evaluation of a
\* deep tree shallow).
RECURSIVE Subtree(_, _)
Subtree(h, id) ==
    LET first == ChildrenOf(h, {id})
        second == ChildrenOf(h, first)
        third == ChildrenOf(h, second)
    IN  {id} \cup first \cup second \cup UNION {Subtree(h, x) : x \in third}

(***************************************************************************)
(* The expression interpreter (src/lib/interpreter.js), as the table of    *)
(* what `new Interpreter(code).run()` leaves in `value` for the programs   *)
(* the templates of this model contain.  Every other program of the model  *)
(* is an unbound identifier or no ES5 program at all, and the interpreter  *)
(* throws on it.                                                           *)
(***************************************************************************)
Literals ==
    ("1==1" :> "true") @@ ("1==2" :> "false") @@ ("true" :> "true") @@
    ("false" :> "false") @@ ("0" :> "0") @@ ("1" :> "1") @@ ("2" :> "2")

Falsy == {"false", "0"}

Interpreter(code) ==
    IF Len(code) = 1 /\ code[1] \in DOMAIN Literals
    THEN [ok |-> TRUE, value |-> <<Literals[code[1]]>>]
    ELSE IF Len(code) = 3 /\ code[1] = "Boolean" /\ code[2] = "(" /\ code[3] = ")"
    THEN [ok |-> TRUE, value |-> <<"false">>]
    ELSE IF /\ Len(code) = 4 /\ code[1] = "Boolean" /\ code[2] = "("
            /\ code[4] = ")" /\ code[3] \in DOMAIN Literals
    THEN [ok |-> TRUE,
          value |-> IF Literals[code[3]] \in Falsy THEN <<"false">> ELSE <<"true">>]
    ELSE [ok |-> FALSE, value |-> << >>]

(***************************************************************************)
(* evaluateExpression.                                                     *)
(***************************************************************************)
\* variable.startsWith("@item.") with variable.slice(6), and the same for
\* "@props." with slice(7), on the words of the model.
ItemField == ("@item.name" :> "name") @@ ("@item.url" :> "url")
PropsField == ("@props.title" :> "title") @@ ("@props.prop" :> "prop")
IndexWords == {"@index"}

Digits == <<"0", "1", "2", "3", "4", "5", "6", "7", "8", "9">>

RECURSIVE NumberToString(_)
NumberToString(i) ==
    IF i < 10 THEN <<Digits[i + 1]>>
    ELSE NumberToString(i \div 10) \o <<Digits[(i % 10) + 1]>>

\* String(v) of a context value: a string is itself, an array of objects is
\* its elements' "[object Object]" joined by commas.
RECURSIVE JoinObjects(_)
JoinObjects(n) ==
    IF n = 0 THEN << >>
    ELSE IF n = 1 THEN <<"[object Object]">>
    ELSE JoinObjects(n - 1) \o <<",", "[object Object]">>

Stringify(v) == IF v.isArray THEN JoinObjects(Len(v.items)) ELSE v.string

\* The index of the first token t of s at or after i, 0 if there is none.
FirstAt(s, i, t) ==
    IF \E j \in i..Len(s) : s[j] = t
    THEN CHOOSE j \in i..Len(s) : s[j] = t /\ \A k \in i..(j-1) : s[k] # t
    ELSE 0

\* A variant of SoftMiss that drops the placeholder.
SoftMissBlank(match) == << >>

\* line 222: the name is in no scope, the placeholder stands.
SoftMiss(match) == match

\* The callback of the first replace: fragment is an element id, 0 for null.
ResolveVariable(variable, match, h, fragment, ctx) ==
    LET w == variable[1]
        single == Len(variable) = 1
        f == h[fragment]
    IN  IF /\ single /\ w \in DOMAIN ItemField /\ fragment # 0
           /\ f.hasItem /\ Has(f.listItem, ItemField[w])
        THEN Get(f.listItem, ItemField[w])
        ELSE IF /\ single /\ w \in DOMAIN PropsField /\ fragment # 0
                /\ f.hasProps /\ Has(f.props, PropsField[w])
        THEN Get(f.props, PropsField[w])
        ELSE IF w \in IndexWords /\ fragment # 0
        THEN (IF f.listIndex = -1 THEN <<"undefined">> ELSE NumberToString(f.listIndex))
        ELSE IF single /\ w \in DOMAIN ctx
        THEN Stringify(ctx[w])
        ELSE SoftMiss(match)

\* result.replace(/\$\{([^}]+)\}/g, callback), scanning from token i.
RECURSIVE Interpolate(_, _, _, _, _)
Interpolate(s, i, h, fragment, ctx) ==
    IF i > Len(s) THEN << >>
    ELSE LET j == IF i < Len(s) /\ s[i] = "$" /\ s[i+1] = "{"
                  THEN FirstAt(s, i + 2, "}") ELSE 0
         IN  IF j >= i + 3
             THEN ResolveVariable(SubSeq(s, i + 2, j - 1), SubSeq(s, i, j),
                                  h, fragment, ctx)
                  \o Interpolate(s, j + 1, h, fragment, ctx)
             ELSE <<s[i]>> \o Interpolate(s, i + 1, h, fragment, ctx)

\* A variant of Compute that leaves every parenthesized stretch as it is.
ComputeKept(s, i) == [ok |-> TRUE, value |-> SubSeq(s, i, Len(s))]

\* result.replace(/\(([^)]+)\)/g, run the interpreter), scanning from token i.
RECURSIVE Compute(_, _)
Compute(s, i) ==
    IF i > Len(s) THEN [ok |-> TRUE, value |-> << >>]
    ELSE LET j == IF s[i] = "(" THEN FirstAt(s, i + 1, ")") ELSE 0
         IN  IF j >= i + 2
             THEN LET interpreter == Interpreter(SubSeq(s, i + 1, j - 1))
                      rest == Compute(s, j + 1)
                  IN  IF interpreter.ok /\ rest.ok
                      THEN [ok |-> TRUE, value |-> interpreter.value \o rest.value]
                      ELSE [ok |-> FALSE, value |-> << >>]
             ELSE LET rest == Compute(s, i + 1)
                  IN  [rest EXCEPT !.value = <<s[i]>> \o rest.value]

evaluateExpression(expression, h, fragment, ctx) ==
    LET result1 == IF Contains(expression, "$", "{")
                   THEN Interpolate(expression, 1, h, fragment, ctx)
                   ELSE expression
    IN  IF \E i \in 1..Len(result1) : result1[i] = "("
        THEN Compute(result1, 1)
        ELSE [ok |-> TRUE, value |-> result1]

\* Object.fromEntries(Object.entries(obj).map(([k, v]) => [k, evaluate(v)])).
EvaluateEntries(obj, h, fragment, ctx) ==
    LET r == [i \in 1..Len(obj) |-> evaluateExpression(obj[i][2], h, fragment, ctx)]
    IN  [ok |-> \A i \in 1..Len(obj) : r[i].ok,
         value |-> [i \in 1..Len(obj) |-> <<obj[i][1], r[i].value>>]]

(***************************************************************************)
(* prerenderComponents, on the same explicit stack.  Entering an element   *)
(* is the body of the function: a component reference is replaced by a     *)
(* fragment of clones (ok = FALSE when it throws `Import <tag> not found   *)
(* in cache`), any other element gets a frame for its forEach.  forEach    *)
(* reads the array it walks when it reaches each index, up to the length   *)
(* the array had at the start.                                             *)
(***************************************************************************)
\* A variant of ExpandComponent that leaves the fragment without content.
ExpandComponentEmpty(M, element, importCache) ==
    LET e == M.h[element]
        parent == e.parent
        index == IF parent = 0 THEN 0 ELSE IndexOf(M.h[parent].children, element)
        fragment == M.n
        M1 == Alloc(M, [PikoElement("fragment", << >>, << >>, 0)
                           EXCEPT !.hasProps = TRUE, !.props = e.attributes])
    IN  IF parent = 0 \/ index = 0 THEN M
        ELSE SetChildren(M1, parent,
                         Splice(M1.h[parent].children, index, <<fragment>>))

\* A variant of ExpandComponent that puts the reference's own children
\* behind the copies of the forest.
ExpandComponentSlot(M, element, importCache) ==
    LET e == M.h[element]
        parent == e.parent
        index == IF parent = 0 THEN 0 ELSE IndexOf(M.h[parent].children, element)
        cl == CloneChildren(M, importCache, 0)
        fragment == cl.M.n
        M1 == Alloc(cl.M, [PikoElement("fragment", << >>, << >>, 0)
                              EXCEPT !.children = cl.ids \o e.children,
                                     !.hasProps = TRUE,
                                     !.props = e.attributes])
        M2 == SetChildren(M1, parent,
                          Splice(M1.h[parent].children, index, <<fragment>>))
    IN  IF parent = 0 \/ index = 0 THEN M
        ELSE SetParents(M2, cl.ids \o e.children, fragment)

ExpandComponent(M, element, importCache) ==
    LET e == M.h[element]
        parent == e.parent
        index == IF parent = 0 THEN 0 ELSE IndexOf(M.h[parent].children, element)
        cl == CloneChildren(M, importCache, 0)
        fragment == cl.M.n
        M1 == Alloc(cl.M, [PikoElement("fragment", << >>, << >>, 0)
                              EXCEPT !.children = cl.ids,
                                     !.hasProps = TRUE,
                                     !.props = e.attributes])
        M2 == SetChildren(M1, parent,
                          Splice(M1.h[parent].children, index, <<fragment>>))
    IN  IF parent = 0 \/ index = 0 THEN M
        ELSE SetParents(M2, cl.ids, fragment)

IsReference(e) == e.tag \notin KnownElements /\ e.tag # "fragment" /\ e.tag # "if"

prerenderComponents(P, element, importCaches) ==
    LET e == P.M.h[element]
    IN  IF IsReference(e)
        THEN IF <<e.tag>> \notin DOMAIN importCaches
             THEN [P EXCEPT !.ok = FALSE]
             ELSE [P EXCEPT !.M = ExpandComponent(P.M, element, importCaches[<<e.tag>>])]
        ELSE [P EXCEPT !.stack = Append(P.stack, Frame(P.M.h, element))]

PrerenderStep(P, importCaches) ==
    LET top == P.stack[Len(P.stack)]
    IN  IF Exhausted(P.M.h, top)
        THEN [P EXCEPT !.stack = SubSeq(P.stack, 1, Len(P.stack) - 1)]
        ELSE prerenderComponents([P EXCEPT !.stack[Len(P.stack)].i = top.i + 1],
                                 P.M.h[top.node].children[top.i], importCaches)

RECURSIVE PrerenderRun(_, _, _)
PrerenderRun(P, importCaches, budget) ==
    IF P.stack = << >> \/ ~P.ok \/ budget = 0 THEN P
    ELSE PrerenderRun(PrerenderStep(P, importCaches), importCaches, budget - 1)

(***************************************************************************)
(* expandList.                                                             *)
(***************************************************************************)
\* A variant of ListData that runs once over a value that is no array.
ListDataLenient(e, ctx) ==
    LET items == Get(e.attributes, "items")
    IN  IF Len(items) = 1 /\ items[1] \in DOMAIN ctx
        THEN (IF ctx[items[1]].isArray THEN ctx[items[1]].items
              ELSE << << <<"name", ctx[items[1]].string>> >> >>)
        ELSE << >>

\* list.attributes.items ? context[list.attributes.items] : [], reduced to
\* the array the expansion runs over: empty unless the value is an array.
ListData(e, ctx) ==
    LET items == Get(e.attributes, "items")
    IN  IF Len(items) = 1 /\ items[1] \in DOMAIN ctx /\ ctx[items[1]].isArray
        THEN ctx[items[1]].items
        ELSE << >>

\* A variant of CloneForItem that counts the items from 1.
RECURSIVE CloneForItemOneBased(_, _, _, _)
CloneForItemOneBased(M, ids, listItem, i) ==
    IF ids = << >>
    THEN [M |-> M, ids |-> << >>]
    ELSE LET c == deepClonePikoElement(M, Head(ids), 0)
             M1 == [c.M EXCEPT !.h[c.id].hasItem = TRUE,
                               !.h[c.id].listItem = listItem,
                               !.h[c.id].listIndex = i + 1]
             r == CloneForItemOneBased(M1, Tail(ids), listItem, i)
         IN  [ids |-> <<c.id>> \o r.ids, M |-> r.M]

\* list.children.map(child => clone with __listItem and __listIndex set).
RECURSIVE CloneForItem(_, _, _, _)
CloneForItem(M, ids, listItem, i) ==
    IF ids = << >>
    THEN [M |-> M, ids |-> << >>]
    ELSE LET c == deepClonePikoElement(M, Head(ids), 0)
             M1 == [c.M EXCEPT !.h[c.id].hasItem = TRUE,
                               !.h[c.id].listItem = listItem,
                               !.h[c.id].listIndex = i]
             r == CloneForItem(M1, Tail(ids), listItem, i)
         IN  [ids |-> <<c.id>> \o r.ids, M |-> r.M]

\* A variant of ExpandItems that hands out the list's own children for
\* every item, without copying them.
ExpandItemsShared(M, ids, data, i) ==
    [M |-> M, ids |-> Flatten([k \in 1..Len(data) |-> ids])]

\* A variant of ExpandItems that puts the copies for the last item first.
RECURSIVE ExpandItemsReversed(_, _, _, _)
ExpandItemsReversed(M, ids, data, i) ==
    IF i >= Len(data)
    THEN [M |-> M, ids |-> << >>]
    ELSE LET r == ExpandItemsReversed(M, ids, data, i + 1)
             c == CloneForItem(r.M, ids, data[i + 1], i)
         IN  [M |-> c.M, ids |-> r.ids \o c.ids]

\* data.flatMap((listItem, i) => ...), from the item at index i (0-based).
RECURSIVE ExpandItems(_, _, _, _)
ExpandItems(M, ids, data, i) ==
    IF i >= Len(data)
    THEN [M |-> M, ids |-> << >>]
    ELSE LET c == CloneForItem(M, ids, data[i + 1], i)
             r == ExpandItems(c.M, ids, data, i + 1)
         IN  [ids |-> c.ids \o r.ids, M |-> r.M]

\* A variant of expandList that leaves a list over nothing where it is.
expandListLazy(M, list, ctx) ==
    LET e == M.h[list]
        parent == e.parent
        listIndex == IF parent = 0 THEN 0 ELSE IndexOf(M.h[parent].children, list)
        data == ListData(e, ctx)
        x == ExpandItems(M, e.children, data, 0)
    IN  IF parent = 0 \/ listIndex = 0 \/ Len(data) = 0 THEN M
        ELSE SetParents(
                 SetChildren(x.M, parent,
                             Splice(x.M.h[parent].children, listIndex, x.ids)),
                 x.ids, parent)

expandList(M, list, ctx) ==
    LET e == M.h[list]
        parent == e.parent
        listIndex == IF parent = 0 THEN 0 ELSE IndexOf(M.h[parent].children, list)
        data == ListData(e, ctx)
        x == ExpandItems(M, e.children, data, 0)
    IN  IF parent = 0 \/ listIndex = 0 THEN M
        ELSE IF Len(data) > 0
        THEN SetParents(
                 SetChildren(x.M, parent,
                             Splice(x.M.h[parent].children, listIndex, x.ids)),
                 x.ids, parent)
        ELSE SetChildren(M, parent, Splice(M.h[parent].children, listIndex, << >>))

(***************************************************************************)
(* fillAllElements.  ok = FALSE when the interpreter throws.               *)
(***************************************************************************)
RECURSIVE fillAllElements(_, _, _)
RECURSIVE FillEach(_, _, _, _)
fillAllElements(M, element, ctx) ==
    LET e == M.h[element]
        a == IF e.tag \in ALL_BASIC_ELEMENTS
             THEN EvaluateEntries(e.attributes, M.h, element, ctx)
             ELSE [ok |-> TRUE, value |-> e.attributes]
        t == IF e.textContent # << >> /\ Contains(e.textContent, "$", "{")
             THEN evaluateExpression(e.textContent, M.h, element, ctx)
             ELSE [ok |-> TRUE, value |-> e.textContent]
        M1 == [M EXCEPT !.h[element].attributes = a.value,
                        !.h[element].textContent = t.value]
    IN  IF a.ok /\ t.ok THEN FillEach(M1, e.children, 1, ctx)
        ELSE [M |-> M, ok |-> FALSE]

FillEach(M, ids, i, ctx) ==
    IF i > Len(ids) THEN [M |-> M, ok |-> TRUE]
    ELSE LET r == fillAllElements(M, ids[i], ctx)
         IN  IF r.ok THEN FillEach(r.M, ids, i + 1, ctx) ELSE r

(***************************************************************************)
(* fillProps.                                                              *)
(***************************************************************************)
RECURSIVE fillProps(_, _, _, _)
RECURSIVE FillPropsEach(_, _, _, _, _)
fillProps(M, element, currentFragment, ctx) ==
    LET e == M.h[element]
        \* a fragment made in a list evaluates its own props against itself
        p1 == IF e.tag = "fragment" /\ e.hasItem /\ e.hasProps
              THEN EvaluateEntries(e.props, M.h, element, ctx)
              ELSE [ok |-> TRUE, value |-> e.props]
        M1 == [M EXCEPT !.h[element].props = p1.value]
        a == IF currentFragment # 0
             THEN EvaluateEntries(e.attributes, M1.h, currentFragment, ctx)
             ELSE [ok |-> TRUE, value |-> e.attributes]
        t == IF currentFragment # 0 /\ e.textContent # << >>
             THEN evaluateExpression(e.textContent, M1.h, currentFragment, ctx)
             ELSE [ok |-> TRUE, value |-> e.textContent]
        p2 == IF currentFragment # 0 /\ e.tag = "fragment" /\ e.hasProps
              THEN EvaluateEntries(p1.value, M1.h, currentFragment, ctx)
              ELSE [ok |-> TRUE, value |-> p1.value]
        M2 == [M EXCEPT !.h[element].attributes = a.value,
                        !.h[element].textContent = t.value,
                        !.h[element].props = p2.value]
        next == IF e.tag = "fragment" THEN element ELSE currentFragment
    IN  IF p1.ok /\ a.ok /\ t.ok /\ p2.ok
        THEN FillPropsEach(M2, e.children, 1, next, ctx)
        ELSE [M |-> M, ok |-> FALSE]

FillPropsEach(M, ids, i, currentFragment, ctx) ==
    IF i > Len(ids) THEN [M |-> M, ok |-> TRUE]
    ELSE LET r == fillProps(M, ids[i], currentFragment, ctx)
         IN  IF r.ok THEN FillPropsEach(r.M, ids, i + 1, currentFragment, ctx) ELSE r

(***************************************************************************)
(* handleConditionals.  A false `if` assigns a filtered copy to its        *)
(* parent's children, so the forEach that is visiting the parent goes on   *)
(* over the array it started with.  ok = FALSE when the interpreter        *)
(* throws.                                                                 *)
(***************************************************************************)
ConditionValue(h, element, ctx) ==
    LET condition == evaluateExpression(Get(h[element].attributes, "condition"),
                                        h, element, ctx)
        interpreter == Interpreter(<<"Boolean", "(">> \o condition.value \o <<")">>)
    IN  [ok |-> condition.ok /\ interpreter.ok,
         value |-> condition.ok /\ interpreter.ok /\ interpreter.value = <<"true">>]

\* A variant of RemoveChild with the filter's test inverted.
KeepOnlyChild(M, parent, element) ==
    SetChildren(M, parent, SelectSeq(M.h[parent].children, LAMBDA c : c = element))

RemoveChild(M, parent, element) ==
    SetChildren(M, parent, SelectSeq(M.h[parent].children, LAMBDA c : c # element))

RECURSIVE handleConditionals(_, _, _)
RECURSIVE ConditionalsEach(_, _, _, _)
handleConditionals(M, element, ctx) ==
    LET e == M.h[element]
        isIf == e.tag = "if" /\ Get(e.attributes, "condition") # << >>
        condition == ConditionValue(M.h, element, ctx)
        M1 == IF ~isIf THEN M
              ELSE IF condition.value
              THEN [M EXCEPT !.h[element].tag = "fragment",
                             !.h[element].attributes = << >>]
              ELSE IF e.parent # 0 THEN RemoveChild(M, e.parent, element)
              ELSE M
    IN  IF isIf /\ ~condition.ok THEN [M |-> M, ok |-> FALSE]
        ELSE ConditionalsEach(M1, M1.h[element].children, 1, ctx)

ConditionalsEach(M, ids, i, ctx) ==
    IF i > Len(ids) THEN [M |-> M, ok |-> TRUE]
    ELSE LET r == handleConditionals(M, ids[i], ctx)
         IN  IF r.ok THEN ConditionalsEach(r.M, ids, i + 1, ctx) ELSE r

(***************************************************************************)
(* handleConditionals of Termic.local.  A false `if` is spliced out of its *)
(* parent's children array, the array the parent's forEach is walking:     *)
(* forEach goes through the indices 0..len-1 of the array as it is when    *)
(* each index is reached, and passes over an index the array has no more.  *)
(***************************************************************************)
RemoveAt(M, parent, element) ==
    LET index == IndexOf(M.h[parent].children, element)
    IN  IF index # 0
        THEN SetChildren(M, parent, Splice(M.h[parent].children, index, << >>))
        ELSE M

RECURSIVE handleConditionalsTermic(_, _, _)
RECURSIVE TermicConditionalsEach(_, _, _, _, _)
handleConditionalsTermic(M, element, ctx) ==
    LET e == M.h[element]
        isIf == e.tag = "if" /\ Get(e.attributes, "condition") # << >>
        condition == ConditionValue(M.h, element, ctx)
        M1 == IF ~isIf THEN M
              ELSE IF condition.value
              THEN [M EXCEPT !.h[element].tag = "fragment",
                             !.h[element].attributes = << >>]
              ELSE IF e.parent # 0 THEN RemoveAt(M, e.parent, element)
              ELSE M
    IN  IF isIf /\ ~condition.ok THEN [M |-> M, ok |-> FALSE]
        ELSE TermicConditionalsEach(M1, element, 1, Len(M1.h[element].children), ctx)

TermicConditionalsEach(M, element, i, len, ctx) ==
    IF i > len \/ i > Len(M.h[element].children) THEN [M |-> M, ok |-> TRUE]
    ELSE LET r == handleConditionalsTermic(M, M.h[element].children[i], ctx)
         IN  IF r.ok THEN TermicConditionalsEach(r.M, element, i + 1, len, ctx) ELSE r

(***************************************************************************)
(* buildXMLString (src/xml.ts).  The output is a token sequence; an        *)
(* indent is a sequence of two-space tokens.                               *)
(***************************************************************************)
EscapeAttribute(value) ==
    [i \in 1..Len(value) |-> IF value[i] = "\"" THEN "&quot;" ELSE value[i]]

EscapeText(text) ==
    [i \in 1..Len(text) |->
        IF text[i] = "&" THEN "&amp;"
        ELSE IF text[i] = "<" THEN "&lt;"
        ELSE IF text[i] = ">" THEN "&gt;"
        ELSE text[i]]

AttributeString(attributes) ==
    Flatten([i \in 1..Len(attributes) |->
        <<" ", attributes[i][1], "=\"">> \o EscapeAttribute(attributes[i][2])
        \o <<"\"">>])

\* A variant of SelfClosing that looks at the children only.
SelfClosingChildless(e) == Len(e.children) = 0

\* line 25: no children and no text content.
SelfClosing(e) == Len(e.children) = 0 /\ e.textContent = << >>

RECURSIVE buildXMLString(_, _, _)
buildXMLString(h, element, indent) ==
    LET e == h[element]
        children == e.children
        n == Len(children)
        hasNonTextChildren ==
            \E i \in 1..n : h[children[i]].tag # "text"
                            \/ Len(h[children[i]].children) > 0
        shouldUseNewlines == hasNonTextChildren /\ n > 1
        childIndent == IF shouldUseNewlines THEN indent \o <<"  ">> ELSE << >>
        newline(i) == IF shouldUseNewlines /\ i < n THEN <<"\n">> ELSE << >>
        childString(i) ==
            LET child == h[children[i]]
            IN  IF /\ child.tag = "text" /\ child.textContent # << >>
                   /\ Len(child.children) = 0 /\ shouldUseNewlines
                THEN childIndent \o <<"<", "text">>
                     \o AttributeString(child.attributes) \o <<">">>
                     \o EscapeText(child.textContent) \o <<"</", "text", ">">>
                     \o newline(i)
                ELSE buildXMLString(h, children[i], childIndent) \o newline(i)
    IN  IF e.tag = "fragment"
        THEN Flatten([i \in 1..n |-> buildXMLString(h, children[i], indent)])
        ELSE IF e.tag = "import" THEN << >>
        ELSE IF SelfClosing(e)
        THEN indent \o <<"<", e.tag>> \o AttributeString(e.attributes) \o <<"/>">>
        ELSE indent \o <<"<", e.tag>> \o AttributeString(e.attributes) \o <<">">>
             \o (IF e.textContent # << >> /\ n = 0
                 THEN EscapeText(e.textContent) ELSE << >>)
             \o (IF n > 0
                 THEN (IF shouldUseNewlines THEN <<"\n">> ELSE << >>)
                      \o Flatten([i \in 1..n |-> childString(i)])
                      \o (IF shouldUseNewlines THEN <<"\n">> \o indent ELSE << >>)
                 ELSE << >>)
             \o <<"</", e.tag, ">">>

xmlDeclaration == <<"<?xml version=\"1.0\" encoding=\"UTF-8\" standalone=\"yes\"?>", "\n">>

(***************************************************************************)
(* The files the process can read, as the parser returns them: the root    *)
(* element (isArray tells the parser returned an array for it), every      *)
(* element with its name, attributes, text and children in document order. *)
(* Termic.local's parser hands out another shape of the same document,     *)
(* DefaultParser of the root.                                              *)
(***************************************************************************)
El(name, attrs, text, children) ==
    [name |-> name, attrs |-> attrs, text |-> text, children |-> children]

Doc(root) == [isArray |-> FALSE, root |-> root]

Txt(text) == El("text", << >>, text, << >>)
Import(key, from) ==
    El("import", << <<"key", <<key>>>>, <<"from", <<from>>>> >>, << >>, << >>)
Use(tag) == El(tag, << >>, << >>, << >>)
Piko(children) == El("piko", << >>, << >>, children)
Term(children) == El("term", << >>, << >>, children)
List(items, children) == El("list", << <<"items", <<items>>>> >>, << >>, children)
If(condition, children) ==
    El("if", << <<"condition", condition>> >>, << >>, children)

Marker(name) == <<"$", "{", name, "}">>
Paren(code) == <<"(">> \o code \o <<")">>

Page(name) == <<"pages", name>>
Site(site, name) == <<site, name>>

Files ==
    \* the two pages of src/main.ts, cut down
    (Page("index.xml") :> Doc(Piko(<<
        El("container", << <<"id", Marker("missing")>> >>, << >>, <<
            Txt(<<"You searched for ">> \o Marker("search")),
            Txt(Marker("missing")) >>),
        Use("br") >>))) @@
    (Page("search.xml") :> Doc(Piko(<<
        Import("Card", "Card.xml"),
        List("results", <<
            El("Card", << <<"prop", Marker("@item.name")>> >>, << >>, << >>) >>) >>))) @@
    (Page("Card.xml") :> Doc(Piko(<<
        El("container", << >>, << >>, << Txt(Marker("@props.prop")) >>) >>))) @@
    (Page("query.xml") :> Doc(Piko(<<
        Txt(<<"You searched for ">> \o Marker("search")),
        El("input", << <<"value", Marker("search")>> >>, << >>, << >>) >>))) @@
    \* a component at the top level, its prop a placeholder of the context
    (Page("top.xml") :> Doc(Piko(<<
        Import("Card", "Card.xml"),
        El("Card", << <<"prop", Marker("search")>> >>, << >>, << >>) >>))) @@
    \* scope placeholders under no fragment and in no list
    (Page("loose.xml") :> Doc(Piko(<<
        Txt(Marker("@item.name")),
        Txt(Marker("@props.prop")),
        Txt(Marker("@index")),
        El("input", << <<"value", Marker("@index")>> >>, << >>, << >>) >>))) @@
    \* a component reference deeper inside a list
    (Page("deepcard.xml") :> Doc(Piko(<<
        Import("Card", "Card.xml"),
        List("results", <<
            El("container", << >>, << >>, <<
                El("Card", << <<"prop", Marker("@item.name")>> >>, << >>, << >>)
            >>) >>) >>))) @@
    \* a component used without an import of its own
    (Page("cardonly.xml") :> Doc(Piko(<<
        El("Card", << <<"prop", <<"plain">>>> >>, << >>, << >>) >>))) @@
    \* a component reference with text and children of its own
    (Page("slot.xml") :> Doc(Piko(<<
        Import("Card", "Card.xml"),
        El("Card", << <<"prop", <<"plain">>>> >>, <<"own text">>, <<
            Txt(<<"inside">>), Use("Ghost") >>) >>))) @@
    \* lists
    (Page("list.xml") :> Doc(Piko(<<
        List("results", <<
            Txt(Marker("@item.name") \o <<" ">> \o Paren(Marker("@index"))),
            El("link", << <<"href", Marker("@item.url")>> >>, << >>, << >>) >>),
        Txt(<<"end">>) >>))) @@
    (Page("items.xml") :> Doc(Piko(<<
        List("results", <<
            Txt(Marker("@item.name") \o <<" ">> \o Paren(Marker("@index"))) >>)
        >>))) @@
    \* lists that run over nothing: no items attribute, a name the context
    \* does not hold, a string, and the results array
    (Page("void.xml") :> Doc(Piko(<<
        Txt(<<"head">>),
        El("list", << >>, << >>, << Txt(<<"a">>) >>),
        List("nothing", << Txt(<<"b">>) >>),
        List("search", << Txt(<<"c">>), Use("br") >>),
        List("results", << Txt(<<"d">>) >>),
        Txt(<<"tail">>) >>))) @@
    \* a list over the results whose child is a list over the columns
    (Page("table.xml") :> Doc(Piko(<<
        Txt(<<"head">>),
        List("results", << List("cols", << Txt(Marker("@item.name")) >>) >>),
        Txt(<<"tail">>) >>))) @@
    \* three lists, one in the other
    (Page("cube.xml") :> Doc(Piko(<<
        List("results", << List("results", << List("one", <<
            Txt(Marker("@item.name")) >>) >>) >>) >>))) @@
    (Page("grid.xml") :> Doc(Piko(<<
        List("results", << List("results", << Txt(Marker("@item.name")) >>) >>)
        >>))) @@
    (Page("rows.xml") :> Doc(Piko(<<
        Import("Rows", "Rows.xml"), Use("Rows") >>))) @@
    (Page("Rows.xml") :> Doc(Piko(<<
        List("results", << Txt(Marker("@item.name")) >>) >>))) @@
    \* conditionals
    (Page("cond.xml") :> Doc(Piko(<<
        If(Paren(<<"1==1">>), << Txt(<<"yes">>), Use("br") >>),
        If(Paren(<<"1==2">>), <<
            Txt(<<"no">>), If(Paren(<<"1==1">>), << Txt(<<"inner">>) >>) >>),
        If(Paren(<<"1==2">>), << Txt(<<"no2">>) >>),
        Txt(<<"tail">>) >>))) @@
    (Page("bareif.xml") :> Doc(Piko(<<
        El("if", << >>, << >>, << Txt(<<"kept">>) >>) >>))) @@
    (Page("when.xml") :> Doc(Piko(<<
        Import("When", "When.xml"),
        El("When", << <<"title", Marker("search")>> >>, << >>, << >>) >>))) @@
    (Page("When.xml") :> Doc(Piko(<<
        If(Paren(<<"1==1">>), << Txt(Marker("@props.title")) >>),
        If(Paren(<<"1==2">>), << Txt(<<"hidden">>) >>) >>))) @@
    \* a marker inside parentheses
    (Page("paren.xml") :> Doc(Piko(<<
        Txt(Paren(Marker("missing"))) >>))) @@
    \* import graphs
    (Page("selfref.xml") :> Doc(Piko(<<
        Import("Loop", "Loop.xml"), Use("Loop") >>))) @@
    (Page("Loop.xml") :> Doc(Piko(<<
        Import("Loop", "Loop.xml"), Use("Loop") >>))) @@
    (Page("echo.xml") :> Doc(Piko(<<
        Import("Echo", "Echo.xml"), Use("Echo") >>))) @@
    (Page("Echo.xml") :> Doc(Piko(<< Use("Echo") >>))) @@
    (Page("selfimport.xml") :> Doc(Piko(<<
        Import("Solo", "Solo.xml"), Use("Solo") >>))) @@
    (Page("Solo.xml") :> Doc(Piko(<<
        Import("Solo", "Solo.xml"), Txt(<<"solo">>) >>))) @@
    (Page("chain.xml") :> Doc(Piko(<<
        Import("Ping", "Ping.xml"), Use("Ping") >>))) @@
    (Page("Ping.xml") :> Doc(Piko(<<
        Import("Pong", "Pong.xml"), Use("Pong") >>))) @@
    (Page("Pong.xml") :> Doc(Piko(<<
        Import("Ping", "Ping.xml"), Use("Ping") >>))) @@
    (Page("loopghost.xml") :> Doc(Piko(<<
        Import("Loop", "Loop.xml"), Use("Loop"), Use("Ghost") >>))) @@
    (Page("nested.xml") :> Doc(Piko(<<
        Import("Outer", "Outer.xml"), Use("Outer") >>))) @@
    (Page("late.xml") :> Doc(Piko(<<
        Import("Outer", "Outer.xml"), Use("Outer"), Use("Inner") >>))) @@
    (Page("Outer.xml") :> Doc(Piko(<<
        Import("Inner", "Inner.xml"), Use("Inner") >>))) @@
    (Page("Inner.xml") :> Doc(Piko(<< Txt(<<"in">>) >>))) @@
    (Page("ghost.xml") :> Doc(Piko(<< Use("Ghost") >>))) @@
    (Page("gone.xml") :> Doc(Piko(<<
        Import("Gone", "nowhere.xml"), Use("Gone") >>))) @@
    \* imports with a missing key, an empty from
    (Page("nokey.xml") :> Doc(Piko(<<
        El("import", << <<"from", <<"Card.xml">>>> >>, << >>, << >>),
        Txt(<<"hi">>) >>))) @@
    (Page("nofrom.xml") :> Doc(Piko(<<
        El("import", << <<"key", <<"Card">>>>, <<"from", << >>>> >>, << >>, << >>),
        Txt(<<"hi">>) >>))) @@
    \* two sites with a page each, and a Card.xml of their own next to it
    (Site("siteA", "page.xml") :> Doc(Piko(<<
        Import("Card", "Card.xml"), Use("Card") >>))) @@
    (Site("siteA", "Card.xml") :> Doc(Piko(<< Txt(<<"from A">>) >>))) @@
    (Site("siteB", "page.xml") :> Doc(Piko(<<
        Import("Card", "Card.xml"), Use("Card") >>))) @@
    (Site("siteB", "Card.xml") :> Doc(Piko(<< Txt(<<"from B">>) >>))) @@
    \* a malformed import next to a component nothing imports
    (Page("skipghost.xml") :> Doc(Piko(<<
        El("import", << <<"from", <<"Card.xml">>>> >>, << >>, << >>),
        Use("Ghost") >>))) @@
    \* pages of a process that runs Termic.local
    (Site("terms", "conds.xml") :> Doc(Term(<<
        If(Paren(<<"1==2">>), << Txt(<<"a">>) >>),
        If(Paren(<<"1==2">>), << Txt(<<"b">>) >>),
        If(Paren(<<"1==1">>), << Txt(<<"c">>) >>),
        Txt(<<"tail">>) >>))) @@
    (Site("terms", "apart.xml") :> Doc(Term(<<
        If(Paren(<<"1==2">>), << Txt(<<"a">>) >>),
        If(Paren(<<"1==1">>), <<
            If(Paren(<<"1==2">>), << Txt(<<"b">>) >>), Txt(<<"c">>) >>),
        El("container", << >>, << >>, <<
            If(Paren(<<"1==2">>), << Txt(<<"d">>) >>), Use("br") >>) >>))) @@
    (Site("terms", "cards.xml") :> Doc(Term(<<
        Import("Card", "Card.xml"),
        List("results", <<
            El("Card", << <<"prop", Marker("@item.name")>> >>, << >>, << >>) >>) >>))) @@
    (Site("terms", "Card.xml") :> Doc(Term(<<
        El("container", << >>, << >>, << Txt(Marker("@props.prop")) >>) >>))) @@
    (Site("terms", "slot.xml") :> Doc(Term(<<
        Import("Card", "Card.xml"),
        El("Card", << <<"prop", <<"plain">>>> >>, <<"own text">>, <<
            Txt(<<"inside">>), Use("Ghost") >>) >>))) @@
    (Site("terms", "nokey.xml") :> Doc(Term(<<
        El("import", << <<"from", <<"Card.xml">>>> >>, << >>, << >>),
        Txt(<<"hi">>) >>))) @@
    (Site("terms", "noroot.xml") :> Doc(El("page", << >>, << >>, << Txt(<<"x">>) >>))) @@
    (Site("terms", "bare.xml") :> Doc(Term(<< >>))) @@
    \* files without a <piko> root
    (Page("noroot.xml") :> Doc(El("page", << >>, << >>, << Txt(<<"x">>) >>))) @@
    (Page("multi.xml") :> [isArray |-> TRUE, root |-> Piko(<< >>)])

\* The files a caller may hand to Pikic.local.
Entries ==
    {Page(n) : n \in {"index.xml", "query.xml", "top.xml", "loose.xml", "search.xml", "deepcard.xml", "cardonly.xml", "slot.xml",
                      "list.xml", "items.xml", "void.xml", "table.xml", "cube.xml", "grid.xml", "rows.xml", "cond.xml",
                      "bareif.xml", "when.xml", "paren.xml", "selfref.xml", "echo.xml",
                      "selfimport.xml", "chain.xml", "loopghost.xml", "nested.xml",
                      "late.xml", "ghost.xml", "gone.xml", "nokey.xml",
                      "nofrom.xml", "noroot.xml", "multi.xml"}}

\* The entries of a process that serves several calls in a row.
SeqEntries ==
    {Page(n) : n \in {"search.xml", "cardonly.xml", "late.xml", "nofrom.xml",
                      "noroot.xml", "multi.xml"}}

\* The entries of a process that has two calls in flight at a time.
ParEntries ==
    {Site("siteA", "page.xml"), Site("siteB", "page.xml"), Page("items.xml"),
     Page("skipghost.xml"), Page("noroot.xml")}

\* The entries of a process that runs Termic.local.
TermicEntries ==
    {Site("terms", n) : n \in {"conds.xml", "apart.xml", "cards.xml", "slot.xml", "nokey.xml",
                               "noroot.xml", "bare.xml"}}

EntriesOf(m) ==
    IF m = "seq" THEN SeqEntries
    ELSE IF m = "par" THEN ParEntries
    ELSE IF m = "termic" THEN TermicEntries
    ELSE Entries

(***************************************************************************)
(* Render contexts, after the /search context of src/main.ts: a string,    *)
(* the array of results, and an array with one element.                    *)
(***************************************************************************)
String(s) == [isArray |-> FALSE, string |-> s, items |-> << >>]
Array(items) == [isArray |-> TRUE, string |-> << >>, items |-> items]

Result(i) ==
    << <<"name", <<"Page ">> \o NumberToString(i)>>,
       <<"url", <<"site">> \o NumberToString(i)>> >>

Context(n) ==
    [search |-> String(<<"cats">>),
     results |-> Array([i \in 1..n |-> Result(i)]),
     one |-> Array(<<Result(1)>>)]

\* A context with two results that have a name and nothing else.
Named(name) == << <<"name", <<name>>>> >>

CatsContext ==
    [search |-> String(<<"cats">>), results |-> Array(<<Named("A"), Named("B")>>)]

\* A context with n results and an array of m columns.
Column(j) == << <<"name", <<"col ">> \o NumberToString(j)>> >>

TableContext(n, m) ==
    [search |-> String(<<"cats">>),
     results |-> Array([i \in 1..n |-> Result(i)]),
     cols |-> Array([j \in 1..m |-> Column(j)])]

\* A context whose search string is itself the text of a placeholder.
EchoContext ==
    [search |-> String(Marker("unitName")), unitName |-> String(<<"results">>)]

\* A context whose search string is a parenthesized expression.
CodeContext == [Context(1) EXCEPT !.search = String(Paren(<<"1==1">>))]

\* Entries whose output depends on the results array.
ReadsResults ==
    {Page(n) : n \in {"search.xml", "deepcard.xml", "list.xml", "void.xml",
                      "cube.xml", "grid.xml", "rows.xml"}} \cup {Site("terms", "cards.xml")}

ContextsOf(path) ==
    IF path \in ReadsResults THEN {Context(n) : n \in 0..MaxItems}
    ELSE IF path = Page("items.xml") THEN {CatsContext}
    ELSE IF path = Page("table.xml")
    THEN {TableContext(n, m) : n \in 0..MaxItems, m \in 0..MaxItems}
    ELSE IF path = Page("query.xml") THEN {Context(1), EchoContext, CodeContext}
    ELSE {Context(1)}

(***************************************************************************)
(* Objects no reference leads to any more are dropped from the heap:       *)
(* what stays is what the cache, a call's tree, or the lists a call has    *)
(* still to expand (with their parents) lead to through children.          *)
(***************************************************************************)
Collect(M, ch, roots, pending) ==
    LET fromLists == UNION {{id, M.h[id].parent} \ {0} : id \in pending}
        fromCache == UNION {{ch[k][i] : i \in 1..Len(ch[k])} : k \in DOMAIN ch}
        live == UNION {Subtree(M.h, id) :
                          id \in (roots \ {0}) \cup fromLists \cup fromCache}
    IN  [h |-> [id \in live |-> M.h[id]], n |-> M.n]

\* The trees of the calls, and the lists the running forEach of a call has
\* not reached yet.
Roots(re) == {re[t] : t \in Calls}
PendingLists(pcs, ls, cur) ==
    UNION {{ls[t][i] : i \in cur[t]..Len(ls[t])} : t \in {u \in Calls : pcs[u] = "expand"}}

(***************************************************************************)
(* Results of a call.                                                      *)
(***************************************************************************)
NoResult == [kind |-> "none", value |-> << >>]
Returned(text) == [kind |-> "return", value |-> text]
Thrown(message) == [kind |-> "throw", value |-> message]

MultipleRoots == <<"Error: Cannot have multiple <piko> tags in root of file">>
NoRoot == <<"Error: No <piko> found in root of file">>
TermicMultipleRoots == <<"Error: Cannot have multiple <term> tags in root of file">>
TermicNoRoot == <<"Error: No <term> found in root of file">>
SafetyBreakerReached == <<"Safety breaker reached">>
ImportNotFound == <<"Import not found in cache">>
NoSuchFile == <<"ENOENT">>
InterpreterError == <<"interpreter error">>

\* path.resolve(path.dirname(origin), from): a path is a sequence of segments.
ResolvePath(origin, from) == SubSeq(origin, 1, Len(origin) - 1) \o from

Set(f, s, v) == [f EXCEPT ![s] = v]

Finish(s, r) ==
    /\ pc' = Set(pc, s, "done")
    /\ result' = Set(result, s, r)

\* A call is in a stretch of code without an await: from the resumption
\* after `await loadImports()` (line 292), or after the parser's promise
\* (lines 24 and 144), to the next await, the return or the throw.
Busy(t) ==
    \/ pc[t] \in {"loop", "prerender", "collect", "lists", "findlists", "expand",
                  "fill", "props", "conditionals", "build"}
    \/ pc[t] = "load" /\ cursor[t] <= Len(imports[t])

\* The one thread runs a call only while no other call is in such a stretch.
Runnable(s) == \A t \in Calls \ {s} : ~Busy(t)

(***************************************************************************)
(* Pikic.local, one action per stretch of the code.                        *)
(***************************************************************************)
\* lines 14-24: the call reads the file and awaits the parser.
StartRender(s, path, ctx) ==
    /\ pc[s] = "idle"
    /\ Runnable(s)
    /\ rendersLeft > 0
    /\ path \in EntriesOf(mode)
    /\ ctx \in ContextsOf(path)
    /\ rendersLeft' = rendersLeft - 1
    /\ pc' = Set(pc, s, "parse")
    /\ filePath' = Set(filePath, s, path)
    /\ context' = Set(context, s, ctx)
    /\ file' = Set(file, s, [path |-> path, doc |-> Files[path]])
    /\ result' = Set(result, s, NoResult)
    /\ UNCHANGED <<walk, heap, cache, mode, rootElement, imports, components, lists,
                   cursor, safetyBreaker>>

\* A variant of RootCheck without the test for an array.
RootCheckMissingOnly(document) ==
    IF document.root.name # "piko" THEN NoRoot ELSE << >>

\* lines 27-29: the error text of the two root checks, << >> when both pass.
RootCheck(document) ==
    IF document.isArray THEN MultipleRoots
    ELSE IF document.root.name # "piko" THEN NoRoot
    ELSE << >>

\* termic.ts lines 23-25: file.term is undefined when the root has another
\* name, and the empty string when the root is an empty <term/>.
TermicRootCheck(document) ==
    IF document.isArray THEN TermicMultipleRoots
    ELSE IF \/ document.root.name # "term"
            \/ DefaultParser(document.root).isString
               /\ DefaultParser(document.root).string = << >>
    THEN TermicNoRoot
    ELSE << >>

RootCheckOf(document) ==
    IF Termic THEN TermicRootCheck(document) ELSE RootCheck(document)

\* lines 24-29: a root check returns its error text.
RootError(s) ==
    /\ pc[s] = "parse"
    /\ Runnable(s)
    /\ RootCheckOf(file[s].doc) # << >>
    /\ Finish(s, Returned(RootCheckOf(file[s].doc)))
    /\ UNCHANGED <<walk, heap, cache, mode, rendersLeft, filePath, context, file,
                   rootElement, imports, components, lists, cursor, safetyBreaker>>

\* lines 124-248: the tree is built and the three arrays are collected.
Ingest(s) ==
    /\ pc[s] = "parse"
    /\ Runnable(s)
    /\ RootCheckOf(file[s].doc) = << >>
    /\ LET c == IF Termic
                THEN convertXMLToTermElement(heap, DefaultParser(file[s].doc.root),
                                             "term", 0)
                ELSE convertXMLToPikoElement(heap, file[s].doc.root, "piko", 0)
       IN  /\ heap' = c.M
           /\ rootElement' = Set(rootElement, s, c.id)
           /\ imports' = Set(imports, s, getAllImports(c.M.h, c.id))
           /\ components' = Set(components, s, getAllComponents(c.M.h, c.id))
           /\ lists' = Set(lists, s, getAllLists(c.M.h, c.id))
    /\ safetyBreaker' = Set(safetyBreaker, s, 0)
    /\ pc' = Set(pc, s, "loop")
    /\ UNCHANGED <<walk, cache, mode, rendersLeft, filePath, context, file, cursor, result>>

\* A variant of BreakerTrips that trips one iteration early.
BreakerTripsEarly(n) == n >= SafetyCeiling

\* lines 286 and 302: the test of the safety breaker.
BreakerTrips(n) == n > SafetyCeiling

\* lines 285-291: the head of the import/component loop.

ImportLoop(s) ==
    /\ pc[s] = "loop"
    /\ Runnable(s)
    /\ IF Len(imports[s]) > 0 \/ Len(components[s]) > 0
       THEN IF BreakerTrips(safetyBreaker[s])
            THEN /\ Finish(s, Thrown(SafetyBreakerReached))
                 /\ UNCHANGED <<safetyBreaker, cursor>>
            ELSE /\ safetyBreaker' = Set(safetyBreaker, s, safetyBreaker[s] + 1)
                 /\ cursor' = Set(cursor, s, 1)
                 /\ pc' = Set(pc, s, "load")
                 /\ UNCHANGED result
       ELSE /\ safetyBreaker' = Set(safetyBreaker, s, 0)
            /\ pc' = Set(pc, s, "lists")
            /\ UNCHANGED <<cursor, result>>
    /\ UNCHANGED <<walk, heap, cache, mode, rendersLeft, filePath, context, file,
                   rootElement, imports, components, lists>>

\* lines 138-141: an import without a usable key or from is passed over.
Malformed(e) == Get(e.attributes, "from") = << >> \/ Get(e.attributes, "key") = << >>

SkipImport(s) ==
    /\ pc[s] = "load"
    /\ Runnable(s)
    /\ cursor[s] <= Len(imports[s])
    /\ Malformed(heap.h[imports[s][cursor[s]]])
    /\ cursor' = Set(cursor, s, cursor[s] + 1)
    /\ UNCHANGED <<walk, heap, cache, mode, rendersLeft, pc, filePath, context, file,
                   rootElement, imports, components, lists, safetyBreaker, result>>

\* lines 142-144: the import's file is read and the parser awaited.
ReadImport(s) ==
    /\ pc[s] = "load"
    /\ Runnable(s)
    /\ cursor[s] <= Len(imports[s])
    /\ LET e == heap.h[imports[s][cursor[s]]]
           origin == IF e.fromOrigin # << >> THEN e.fromOrigin ELSE filePath[s]
           importPath == ResolvePath(origin, Get(e.attributes, "from"))
       IN  /\ ~Malformed(e)
           /\ IF importPath \in DOMAIN Files
              THEN /\ file' = Set(file, s, [path |-> importPath,
                                            doc |-> Files[importPath]])
                   /\ pc' = Set(pc, s, "store")
                   /\ UNCHANGED result
              ELSE /\ Finish(s, Thrown(NoSuchFile))
                   /\ UNCHANGED file
    /\ UNCHANGED <<walk, heap, cache, mode, rendersLeft, filePath, context, rootElement,
                   imports, components, lists, cursor, safetyBreaker>>

\* lines 145-152: the parsed file is converted, its unresolved imports are
\* given their origin, the forest is stored and the import marked.
RECURSIVE SetOrigins(_, _, _)
SetOrigins(M, ids, importPath) ==
    IF ids = << >> THEN M
    ELSE SetOrigins([M EXCEPT !.h[Head(ids)].fromOrigin = importPath],
                    Tail(ids), importPath)

\* A variant of LoadedContent that takes the root element itself.
LoadedContentWhole(h, loadedElement) == h[loadedElement].children

LoadedContent(h, loadedElement) ==
    IF Len(h[loadedElement].children) > 0
    THEN h[h[loadedElement].children[1]].children
    ELSE << >>

\* A variant of StoreInCache that keeps the forest a key already has.
StoreInCacheFirst(ch, key, content) ==
    IF key \in DOMAIN ch THEN ch ELSE (key :> content) @@ ch

\* A variant of StoreInCache that stores an empty forest.
StoreInCacheEmpty(ch, key, content) == (key :> << >>) @@ ch

\* line 151: Pikic.cache[key] = content.
StoreInCache(ch, key, content) == (key :> content) @@ ch

StoreImport(s) ==
    /\ pc[s] = "store"
    /\ Runnable(s)
    /\ LET import == imports[s][cursor[s]]
           key == Get(heap.h[import].attributes, "key")
           c == IF Termic THEN ConvertTermImportDoc(heap, file[s].doc)
                ELSE ConvertImportDoc(heap, file[s].doc)
           content == LoadedContent(c.M.h, c.id)
           M1 == SetOrigins(c.M, getAllImports(c.M.h, c.id), file[s].path)
           M2 == [M1 EXCEPT !.h[import].imported = TRUE]
           cache1 == StoreInCache(cache, key, content)
       IN  /\ cache' = cache1
           /\ heap' = M2
    /\ cursor' = Set(cursor, s, cursor[s] + 1)
    /\ pc' = Set(pc, s, "load")
    /\ UNCHANGED <<walk, mode, rendersLeft, filePath, context, file, rootElement,
                   imports, components, lists, safetyBreaker, result>>

\* lines 292-293: loadImports has run through its array and
\* prerenderComponents is entered at the root.
ImportsLoaded(s) ==
    /\ pc[s] = "load"
    /\ Runnable(s)
    /\ cursor[s] > Len(imports[s])
    /\ LET P == prerenderComponents([M |-> heap, stack |-> << >>, ok |-> TRUE],
                                    rootElement[s], cache)
       IN  /\ heap' = P.M
           /\ walk' = Set(walk, s, [NoWalk EXCEPT !.stack = P.stack])
           /\ IF P.ok
              THEN pc' = Set(pc, s, "prerender") /\ UNCHANGED result
              ELSE Finish(s, Thrown(ImportNotFound))
    /\ UNCHANGED <<cache, mode, rendersLeft, filePath, context, file, rootElement,
                   imports, components, lists, cursor, safetyBreaker>>

\* line 293: prerenderComponents goes on, up to MaxSteps steps at a time;
\* when it is through, the walk of lines 294-295 is entered at the root.
Prerender(s) ==
    /\ pc[s] = "prerender"
    /\ Runnable(s)
    /\ LET P == PrerenderRun([M |-> heap, stack |-> walk[s].stack, ok |-> TRUE],
                             cache, MaxSteps)
       IN  /\ heap' = P.M
           /\ IF ~P.ok
              THEN /\ Finish(s, Thrown(ImportNotFound))
                   /\ walk' = Set(walk, s, NoWalk)
              ELSE /\ UNCHANGED result
                   /\ IF P.stack = << >>
                      THEN /\ pc' = Set(pc, s, "collect")
                           /\ walk' = Set(walk, s,
                                          CollectEnter(P.M.h, NoWalk, rootElement[s]))
                      ELSE /\ walk' = Set(walk, s, [NoWalk EXCEPT !.stack = P.stack])
                           /\ UNCHANGED pc
    /\ UNCHANGED <<cache, mode, rendersLeft, filePath, context, file, rootElement,
                   imports, components, lists, cursor, safetyBreaker>>

\* lines 294-295: imports and components are collected anew.
Recollect(s) ==
    /\ pc[s] = "collect"
    /\ Runnable(s)
    /\ LET W == CollectRun(heap.h, walk[s], MaxSteps)
       IN  IF W.stack = << >>
           THEN /\ imports' = Set(imports, s, W.imports)
                /\ components' = Set(components, s, W.components)
                /\ walk' = Set(walk, s, NoWalk)
                /\ pc' = Set(pc, s, "loop")
           ELSE /\ walk' = Set(walk, s, W)
                /\ UNCHANGED <<imports, components, pc>>
    /\ UNCHANGED <<heap, cache, mode, rendersLeft, filePath, context, file,
                   rootElement, lists, cursor, safetyBreaker, result>>

\* lines 301-307: the head of the list loop; getAllLists is entered at the
\* root.
ListLoop(s) ==
    /\ pc[s] = "lists"
    /\ Runnable(s)
    /\ IF Len(lists[s]) > 0
       THEN IF BreakerTrips(safetyBreaker[s])
            THEN /\ Finish(s, Thrown(SafetyBreakerReached))
                 /\ UNCHANGED <<safetyBreaker, walk>>
            ELSE /\ safetyBreaker' = Set(safetyBreaker, s, safetyBreaker[s] + 1)
                 /\ walk' = Set(walk, s, CollectEnter(heap.h, NoWalk, rootElement[s]))
                 /\ pc' = Set(pc, s, "findlists")
                 /\ UNCHANGED result
       ELSE /\ pc' = Set(pc, s, "fill")
            /\ UNCHANGED <<safetyBreaker, walk, result>>
    /\ UNCHANGED <<heap, cache, mode, rendersLeft, filePath, context, file,
                   rootElement, imports, components, lists, cursor>>

\* line 308: the lists are collected anew.
FindLists(s) ==
    /\ pc[s] = "findlists"
    /\ Runnable(s)
    /\ LET W == CollectRun(heap.h, walk[s], MaxSteps)
       IN  IF W.stack = << >>
           THEN /\ lists' = Set(lists, s, W.lists)
                /\ cursor' = Set(cursor, s, 1)
                /\ walk' = Set(walk, s, NoWalk)
                /\ pc' = Set(pc, s, IF Len(W.lists) > 0 THEN "expand" ELSE "lists")
           ELSE /\ walk' = Set(walk, s, W)
                /\ UNCHANGED <<lists, cursor, pc>>
    /\ UNCHANGED <<heap, cache, mode, rendersLeft, filePath, context, file,
                   rootElement, imports, components, safetyBreaker, result>>

\* line 309: one call of expandList by lists.forEach.
ExpandList(s) ==
    /\ pc[s] = "expand"
    /\ Runnable(s)
    /\ cursor[s] <= Len(lists[s])
    /\ cursor' = Set(cursor, s, cursor[s] + 1)
    /\ pc' = Set(pc, s, IF cursor[s] = Len(lists[s]) THEN "lists" ELSE "expand")
    /\ heap' = Collect(expandList(heap, lists[s][cursor[s]], context[s]), cache,
                       Roots(rootElement), PendingLists(pc', lists, cursor'))
    /\ UNCHANGED <<walk, cache, mode, rendersLeft, filePath, context, file, rootElement,
                   imports, components, lists, safetyBreaker, result>>

\* line 331.
FillAllElements(s) ==
    /\ pc[s] = "fill"
    /\ Runnable(s)
    /\ LET r == fillAllElements(heap, rootElement[s], context[s])
       IN  IF r.ok
           THEN /\ heap' = r.M
                /\ pc' = Set(pc, s, "props")
                /\ UNCHANGED result
           ELSE /\ Finish(s, Thrown(InterpreterError))
                /\ UNCHANGED heap
    /\ UNCHANGED <<walk, cache, mode, rendersLeft, filePath, context, file, rootElement,
                   imports, components, lists, cursor, safetyBreaker>>

\* line 363.
FillProps(s) ==
    /\ pc[s] = "props"
    /\ Runnable(s)
    /\ LET r == fillProps(heap, rootElement[s], 0, context[s])
       IN  IF r.ok
           THEN /\ heap' = r.M
                /\ pc' = Set(pc, s, "conditionals")
                /\ UNCHANGED result
           ELSE /\ Finish(s, Thrown(InterpreterError))
                /\ UNCHANGED heap
    /\ UNCHANGED <<walk, cache, mode, rendersLeft, filePath, context, file, rootElement,
                   imports, components, lists, cursor, safetyBreaker>>

\* line 386.
HandleConditionals(s) ==
    /\ pc[s] = "conditionals"
    /\ Runnable(s)
    /\ LET r == IF Termic
                THEN handleConditionalsTermic(heap, rootElement[s], context[s])
                ELSE handleConditionals(heap, rootElement[s], context[s])
       IN  IF r.ok
           THEN /\ heap' = Collect(r.M, cache, Roots(rootElement),
                                   PendingLists(pc, lists, cursor))
                /\ pc' = Set(pc, s, "build")
                /\ UNCHANGED result
           ELSE /\ Finish(s, Thrown(InterpreterError))
                /\ UNCHANGED heap
    /\ UNCHANGED <<walk, cache, mode, rendersLeft, filePath, context, file, rootElement,
                   imports, components, lists, cursor, safetyBreaker>>

\* lines 389-393.
Rendered(h, root) == xmlDeclaration \o buildXMLString(h, root, << >>)

Build(s) ==
    /\ pc[s] = "build"
    /\ Runnable(s)
    /\ Finish(s, Returned(Rendered(heap.h, rootElement[s])))
    /\ UNCHANGED <<walk, heap, cache, mode, rendersLeft, filePath, context, file,
                   rootElement, imports, components, lists, cursor, safetyBreaker>>

\* The call is over: its tree and its arrays are unreachable, its result is
\* with the caller, and the process can take its next call.
Return(s) ==
    /\ pc[s] = "done"
    /\ Runnable(s)
    /\ pc' = Set(pc, s, "idle")
    /\ rootElement' = Set(rootElement, s, 0)
    /\ imports' = Set(imports, s, << >>)
    /\ components' = Set(components, s, << >>)
    /\ lists' = Set(lists, s, << >>)
    /\ cursor' = Set(cursor, s, 1)
    /\ safetyBreaker' = Set(safetyBreaker, s, 0)
    /\ walk' = Set(walk, s, NoWalk)
    /\ heap' = Collect(heap, cache, Roots(rootElement'), PendingLists(pc', lists', cursor'))
    /\ UNCHANGED <<cache, mode, rendersLeft, filePath, context, file, result>>

Next ==
    \E s \in Calls :
        \/ \E path \in Entries \cup ParEntries \cup TermicEntries : \E ctx \in ContextsOf(path) : StartRender(s, path, ctx)
        \/ RootError(s)
        \/ Ingest(s)
        \/ ImportLoop(s)
        \/ SkipImport(s)
        \/ ReadImport(s)
        \/ StoreImport(s)
        \/ ImportsLoaded(s)
        \/ Prerender(s)
        \/ Recollect(s)
        \/ ListLoop(s)
        \/ FindLists(s)
        \/ ExpandList(s)
        \/ FillAllElements(s)
        \/ FillProps(s)
        \/ HandleConditionals(s)
        \/ Build(s)
        \/ Return(s)

InitCall ==
    /\ heap = EmptyHeap
    /\ cache = << >>
    /\ pc = [s \in Calls |-> IF s = 1 THEN "idle" ELSE "off"]
    /\ filePath = [s \in Calls |-> << >>]
    /\ context = [s \in Calls |-> Context(0)]
    /\ file = [s \in Calls |-> [path |-> << >>, doc |-> Files[Page("multi.xml")]]]
    /\ rootElement = [s \in Calls |-> 0]
    /\ imports = [s \in Calls |-> << >>]
    /\ components = [s \in Calls |-> << >>]
    /\ lists = [s \in Calls |-> << >>]
    /\ cursor = [s \in Calls |-> 1]
    /\ safetyBreaker = [s \in Calls |-> 0]
    /\ walk = [s \in Calls |-> NoWalk]
    /\ result = [s \in Calls |-> NoResult]

\* A process that serves one call.
Init == InitCall /\ mode = "single" /\ rendersLeft = 1

Spec == Init /\ [][Next]_vars

\* A process that serves MaxRenders calls, one after the other.
InitSeq == InitCall /\ mode = "seq" /\ rendersLeft = MaxRenders

SpecSeq == InitSeq /\ [][Next]_vars

\* A process with two calls of Pikic.local in flight at the same time.
InitPar ==
    /\ heap = EmptyHeap
    /\ cache = << >>
    /\ pc = [s \in Calls |-> "idle"]
    /\ filePath = [s \in Calls |-> << >>]
    /\ context = [s \in Calls |-> Context(0)]
    /\ file = [s \in Calls |-> [path |-> << >>, doc |-> Files[Page("multi.xml")]]]
    /\ rootElement = [s \in Calls |-> 0]
    /\ imports = [s \in Calls |-> << >>]
    /\ components = [s \in Calls |-> << >>]
    /\ lists = [s \in Calls |-> << >>]
    /\ cursor = [s \in Calls |-> 1]
    /\ safetyBreaker = [s \in Calls |-> 0]
    /\ walk = [s \in Calls |-> NoWalk]
    /\ result = [s \in Calls |-> NoResult]
    /\ mode = "par"
    /\ rendersLeft = Cardinality(Calls)

SpecPar == InitPar /\ [][Next]_vars

\* A process that serves one call of Termic.local.
InitTermic == InitCall /\ mode = "termic" /\ rendersLeft = 1

SpecTermic == InitTermic /\ [][Next]_vars

(***************************************************************************)
(* What the files say, read off Files: the elements of a file, the files   *)
(* it imports, the components it refers to, and the two graphs these make. *)
(***************************************************************************)
RECURSIVE Elements(_)
Elements(x) == {x} \cup UNION {Elements(x.children[i]) : i \in 1..Len(x.children)}

ElementsOf(path) == Elements(Files[path].root)

MalformedImport(x) ==
    x.name = "import" /\ (Get(x.attrs, "from") = << >> \/ Get(x.attrs, "key") = << >>)

\* <<key, file>> for every well-formed import of the file.
ImportsOf(path) ==
    {<<Get(x.attrs, "key"), ResolvePath(path, Get(x.attrs, "from"))>> :
        x \in {y \in ElementsOf(path) : y.name = "import" /\ ~MalformedImport(y)}}

ReferencesOf(path) ==
    {x.name : x \in ElementsOf(path)} \ (ALL_ELEMENTS \cup {"fragment"})

AllImports == UNION {ImportsOf(p) : p \in DOMAIN Files}

ImportedFiles(path) == {i[2] : i \in ImportsOf(path)} \cap DOMAIN Files

RECURSIVE FilesWithin(_, _)
FilesWithin(paths, n) ==
    LET more == paths \cup UNION {ImportedFiles(p) : p \in paths}
    IN  IF n = 0 \/ more = paths THEN paths ELSE FilesWithin(more, n - 1)

ImportClosure(paths) == FilesWithin(paths, Cardinality(DOMAIN Files))

ImportsItself(path) == path \in ImportClosure(ImportedFiles(path))

\* Entries that lead to a component file that imports itself, directly or
\* through other component files.
ImportCycleEntries ==
    {p \in Entries : \E f \in ImportClosure(ImportedFiles(p)) : ImportsItself(f)}

FilesOfKey(key) == {i[2] : i \in {j \in AllImports : j[1] = key}} \cap DOMAIN Files

ReferencedBy(tag) == UNION {ReferencesOf(f) : f \in FilesOfKey(<<tag>>)}

RECURSIVE TagsWithin(_, _)
TagsWithin(tags, n) ==
    LET more == tags \cup UNION {ReferencedBy(t) : t \in tags}
    IN  IF n = 0 \/ more = tags THEN tags ELSE TagsWithin(more, n - 1)

ReferenceClosure(tags) == TagsWithin(tags, Cardinality(AllImports))

ReferencesItself(tag) == tag \in ReferenceClosure(ReferencedBy(tag))

\* Entries that use a component whose content refers to the component
\* again, directly or through other components.
SelfReferenceEntries ==
    {p \in Entries : \E t \in ReferenceClosure(ReferencesOf(p)) : ReferencesItself(t)}

\* Entries with a malformed import and no component reference at all.
MalformedOnlyEntries ==
    {p \in Entries : /\ \E x \in ElementsOf(p) : MalformedImport(x)
                     /\ ReferencesOf(p) = {}}

\* Entries with a component reference inside a list, as a child of the list
\* or deeper, that passes prop="${@item.name}".
ItemComponentEntries ==
    {p \in Entries :
        \E l \in ElementsOf(p) :
            /\ l.name = "list"
            /\ \E x \in Elements(l) \ {l} :
                   /\ x.name \notin ALL_ELEMENTS
                   /\ Get(x.attrs, "prop") = Marker("@item.name")}

(***************************************************************************)
(* Readings of a state.                                                    *)
(***************************************************************************)
\* The token sequence t occurs in s.
Occurs(s, t) == \E i \in 0..(Len(s) - Len(t)) : SubSeq(s, i + 1, i + Len(t)) = t

Times(s, w) == Len(SelectSeq(s, LAMBDA x : x = w))

NoParen(v) == \A i \in 1..Len(v) : v[i] # "("

\* The bare names of the placeholders of v that the context does not hold.
SoftMisses(v, ctx) ==
    LET name(i) == IF /\ i + 3 <= Len(v) /\ v[i] = "$" /\ v[i+1] = "{" /\ v[i+3] = "}"
                      /\ v[i+2] \notin DOMAIN ItemField \cup DOMAIN PropsField
                                        \cup IndexWords \cup DOMAIN ctx
                   THEN v[i+2] ELSE ""
    IN  SelectSeq([i \in 1..Len(v) |-> name(i)], LAMBDA w : w # "")

\* Every soft miss of v is a soft miss of w, as many times.
MissesKept(v, w, ctx) ==
    \A i \in 1..Len(SoftMisses(v, ctx)) :
        Times(SoftMisses(w, ctx), SoftMisses(v, ctx)[i])
            >= Times(SoftMisses(v, ctx), SoftMisses(v, ctx)[i])

\* The values of an element that expressions are evaluated in.
ValuesOf(e) ==
    {e.textContent} \cup {e.attributes[i][2] : i \in 1..Len(e.attributes)}
                    \cup {e.props[i][2] : i \in 1..Len(e.props)}

RECURSIVE IsCopy(_, _, _, _)
IsCopy(h1, a, h2, b) ==
    /\ h1[a].tag = h2[b].tag
    /\ h1[a].attributes = h2[b].attributes
    /\ h1[a].textContent = h2[b].textContent
    /\ Len(h1[a].children) = Len(h2[b].children)
    /\ \A i \in 1..Len(h1[a].children) :
           IsCopy(h1, h1[a].children[i], h2, h2[b].children[i])

IsConditional(h, x) == h[x].tag = "if" /\ Get(h[x].attributes, "condition") # << >>

(***************************************************************************)
(* Properties.                                                             *)
(***************************************************************************)
\* C1, for `list`: when fillAllElements, fillProps and handleConditionals
\* have run after the two loops without a throw, no node reachable from the
\* root has tag `list`.
C1_NoListLeft ==
    \A s \in Calls :
        pc[s] = "build" =>
            \A x \in Subtree(heap.h, rootElement[s]) : heap.h[x].tag # "list"

C3_AtMostCeilingIterations ==
    \A s \in Calls : safetyBreaker[s] <= SafetyCeiling

PendingWork(s) ==
    \/ pc[s] = "loop" /\ (Len(imports[s]) > 0 \/ Len(components[s]) > 0)
    \/ pc[s] = "lists" /\ Len(lists[s]) > 0

CeilingStep ==
    \A s \in Calls :
        /\ safetyBreaker'[s] <= SafetyCeiling + 1
        /\ (PendingWork(s) /\ safetyBreaker[s] = SafetyCeiling + 1 /\ pc'[s] # pc[s])
               => pc'[s] = "done" /\ result'[s] = Thrown(SafetyBreakerReached)
        /\ (pc[s] \in {"loop", "lists"} /\ pc'[s] = "done")
               => /\ safetyBreaker[s] = SafetyCeiling + 1
                  /\ PendingWork(s)
                  /\ result'[s] = Thrown(SafetyBreakerReached)

\* C3 amended: the body of either loop is entered at most 101 times in one
\* render; with work still pending after the 101st iteration the render
\* throws 'Safety breaker reached' instead of entering the body a 102nd
\* time, and the head of a loop throws in no other case.
C3_CeilingIsOneMore == [][CeilingStep]_vars

\* C3 witness: the body of the import/component loop is running for the
\* 101st time.
C3_Witness ==
    /\ pc[1] = "load"
    /\ safetyBreaker[1] = SafetyCeiling + 1

\* C4: a render aborts with the unresolved-component error only when the
\* import/component loop has nothing left to load for it: at the abort, no
\* import still pending in the tree names a component that the tree refers
\* to and the cache lacks.
C4_AbortOnlyWhenNothingToLoad ==
    \A s \in Calls :
        pc[s] = "done" /\ result[s] = Thrown(ImportNotFound) =>
            LET pending == getAllImports(heap.h, rootElement[s])
                references == getAllComponents(heap.h, rootElement[s])
            IN  \A i \in 1..Len(pending) : \A c \in 1..Len(references) :
                    \/ Malformed(heap.h[pending[i]])
                    \/ Get(heap.h[pending[i]].attributes, "key")
                           # <<heap.h[references[c]].tag>>
                    \/ <<heap.h[references[c]].tag>> \in DOMAIN cache

\* C5: a template with a malformed import and no component reference
\* renders to completion and returns output.
C5_MalformedImportPassedOver ==
    \A s \in Calls :
        pc[s] = "done" /\ filePath[s] \in MalformedOnlyEntries
            => result[s].kind = "return"

RootErrorStep ==
    \A s \in Calls :
        (/\ pc[s] = "parse"
         /\ pc'[s] # "parse"
         /\ file[s].doc.isArray \/ file[s].doc.root.name # "piko")
            => /\ pc'[s] = "done"
               /\ result'[s] = [kind |-> "return",
                                value |-> IF file[s].doc.isArray
                                          THEN MultipleRoots ELSE NoRoot]
               /\ cache' = cache
               /\ heap' = heap

\* C6: when the parsed file has no <piko> root, or an array for it, the call
\* returns the error text and throws nothing, and it does so in its first
\* step, with no import loaded: cache and heap are as before the call.
C6_RootErrorIsReturned == [][RootErrorStep]_vars

\* C6 witness: a call has returned 'No <piko> found' in a process whose
\* cache an earlier call has filled.
C6_Witness ==
    /\ pc[1] = "done"
    /\ file[1].doc.root.name # "piko"
    /\ result[1] = [kind |-> "return", value |-> NoRoot]
    /\ DOMAIN cache # {}

ListExpansionStep ==
    \A s \in Calls :
        (pc[s] = "expand" /\ cursor'[s] = cursor[s] + 1) =>
            LET list == lists[s][cursor[s]]
                e == heap.h[list]
                parent == e.parent
                before == heap.h[parent].children
                at == IndexOf(before, list)
                items == Get(e.attributes, "items")
                data == context[s][items[1]].items
                N == Len(data)
                K == Len(e.children)
            IN  (/\ parent # 0
                 /\ parent \in DOMAIN heap'.h
                 /\ at # 0
                 /\ Len(items) = 1
                 /\ items[1] \in DOMAIN context[s]
                 /\ context[s][items[1]].isArray
                 /\ N >= 1) =>
                    LET after == heap'.h[parent].children
                    IN  /\ Len(after) = Len(before) - 1 + N * K
                        /\ \A i \in 1..(at - 1) : after[i] = before[i]
                        /\ \A i \in (at + 1)..Len(before) :
                               after[i - 1 + N * K] = before[i]
                        /\ \A i \in 0..(N - 1) : \A j \in 1..K :
                               LET c == after[at - 1 + i * K + j]
                               IN  /\ c \notin DOMAIN heap.h
                                   /\ IsCopy(heap'.h, c, heap.h, e.children[j])
                                   /\ heap'.h[c].parent = parent
                                   /\ heap'.h[c].listIndex = i
                                   /\ heap'.h[c].hasItem
                                   /\ heap'.h[c].listItem = data[i + 1]

\* C7: expanding a list whose `items` names a context array of length
\* N >= 1 and which has K children puts, at the list's place in its parent,
\* exactly N*K new nodes: for i = 0..N-1 in array order, copies of the K
\* children in template order, each with listIndex = i and listItem the
\* i-th element; the parent's other children stay where they were.
C7_ListExpansion == [][ListExpansionStep]_vars

\* C7 witness: the list of list.xml (two children) has been expanded over
\* two results, and the third of the four copies carries index 1.
C7_Witness ==
    /\ pc[1] = "lists"
    /\ filePath[1] = Page("list.xml")
    /\ Len(context[1].results.items) = 2
    /\ Len(heap.h[rootElement[1]].children) = 5
    /\ heap.h[heap.h[rootElement[1]].children[3]].listIndex = 1
    /\ heap.h[heap.h[rootElement[1]].children[3]].listItem = Result(2)

\* C8: where a component reference inside a list passes
\* prop="${@item.name}", the output has, for every item, the interior's
\* text with the item's name, and no placeholder is left in it.
C8_ItemNameInEveryInstance ==
    \A s \in Calls :
        (/\ pc[s] = "done"
         /\ filePath[s] \in ItemComponentEntries
         /\ result[s].kind = "return") =>
            /\ \A i \in 1..Len(context[s].results.items) :
                   Occurs(result[s].value,
                          <<"<", "text", ">">>
                          \o Get(context[s].results.items[i], "name")
                          \o <<"</", "text", ">">>)
            /\ ~Occurs(result[s].value, <<"$">>)

ConditionalsStep ==
    \A s \in Calls :
        (pc[s] = "conditionals" /\ pc'[s] = "build") =>
            LET h == heap.h
                h2 == heap'.h
                before == Subtree(h, rootElement[s])
                after == Subtree(h2, rootElement[s])
                Holds(x) == ConditionValue(h, x, context[s]).value
                IsTrue(x) == IsConditional(h, x) /\ Holds(x)
                IsFalse(x) == IsConditional(h, x) /\ ~Holds(x)
            IN  /\ after = before \ UNION {Subtree(h, x) : x \in {y \in before : IsFalse(y)}}
                /\ \A x \in after :
                       /\ h2[x].children = SelectSeq(h[x].children, LAMBDA c : ~IsFalse(c))
                       /\ IsTrue(x) =>
                              /\ h2[x].tag = "fragment"
                              /\ h2[x].attributes = << >>
                              /\ buildXMLString(h2, x, << >>) =
                                     Flatten([i \in 1..Len(h2[x].children) |->
                                         buildXMLString(h2, h2[x].children[i], << >>)])
                       /\ ~IsConditional(h, x) => h2[x].tag = h[x].tag

\* C9: handleConditionals turns every `if` whose condition is true into a
\* fragment with no attributes, in place, so that it is serialized as its
\* children alone; it takes every `if` whose condition is false out of its
\* parent, and nothing under it stays reachable; all other nodes keep their
\* place and order.
C9_Conditionals == [][ConditionalsStep]_vars

\* C9 witness: of the four children of cond.xml's root, the true `if` is a
\* fragment, the two false ones are gone and the text is left.
C9_Witness ==
    /\ pc[1] = "build"
    /\ filePath[1] = Page("cond.xml")
    /\ Len(heap.h[rootElement[1]].children) = 2
    /\ heap.h[heap.h[rootElement[1]].children[1]].tag = "fragment"
    /\ heap.h[heap.h[rootElement[1]].children[1]].attributes = << >>
    /\ heap.h[heap.h[rootElement[1]].children[2]].textContent = <<"tail">>

\* Entries with a placeholder ${name}, name bare and no key of the context,
\* in a text or an attribute.
SoftMissEntries ==
    {p \in Entries :
        \E x \in ElementsOf(p) :
            \/ SoftMisses(x.text, Context(0)) # << >>
            \/ \E i \in 1..Len(x.attrs) : SoftMisses(x.attrs[i][2], Context(0)) # << >>}

SoftMissStep ==
    \A s \in Calls :
        /\ (pc[s] \in {"fill", "props"} /\ pc'[s] # pc[s]) =>
               LET tree == Subtree(heap.h, rootElement[s])
               IN  /\ (\A x \in tree : \A v \in ValuesOf(heap.h[x]) : NoParen(v))
                          => pc'[s] # "done"
                   /\ pc'[s] # "done" =>
                          \A x \in tree :
                              LET e == heap.h[x]
                                  e2 == heap'.h[x]
                              IN  /\ NoParen(e.textContent) =>
                                         MissesKept(e.textContent, e2.textContent,
                                                    context[s])
                                  /\ Len(e2.attributes) = Len(e.attributes)
                                  /\ \A i \in 1..Len(e.attributes) :
                                         NoParen(e.attributes[i][2]) =>
                                             MissesKept(e.attributes[i][2],
                                                        e2.attributes[i][2], context[s])
        /\ (pc[s] = "build" /\ pc'[s] = "done") =>
               \A x \in Subtree(heap.h, rootElement[s]) :
                   LET e == heap.h[x]
                   IN  e.tag \notin {"fragment", "import"} =>
                           /\ \A i \in 1..Len(e.attributes) :
                                  \A k \in 1..Len(SoftMisses(e.attributes[i][2], context[s])) :
                                      Occurs(result'[s].value,
                                             Marker(SoftMisses(e.attributes[i][2],
                                                               context[s])[k]))
                           /\ Len(e.children) = 0 =>
                                  \A k \in 1..Len(SoftMisses(e.textContent, context[s])) :
                                      Occurs(result'[s].value,
                                             Marker(SoftMisses(e.textContent,
                                                               context[s])[k]))

C11_ParenthesesKept ==
    \A s \in Calls :
        (pc[s] = "done" /\ filePath[s] = Page("items.xml") /\ context[s] = CatsContext)
            => /\ result[s].kind = "return"
               /\ Occurs(result[s].value,
                         <<"<", "text", ">", "A", " ", "(", "0", ")", "</", "text", ">",
                           "<", "text", ">", "B", " ", "(", "1", ")", "</", "text", ">">>)

\* C11 amended: the same render returns exactly two text nodes, "A 0" and
\* "B 1", in that order: the parenthesized index goes through the
\* interpreter and its value replaces the parentheses with their content.
C11_ParenthesesComputed ==
    \A s \in Calls :
        (pc[s] = "done" /\ filePath[s] = Page("items.xml") /\ context[s] = CatsContext)
            => result[s] = Returned(xmlDeclaration \o
                   <<"<", "piko", ">",
                     "<", "text", ">", "A", " ", "0", "</", "text", ">",
                     "<", "text", ">", "B", " ", "1", "</", "text", ">",
                     "</", "piko", ">">>)

\* C11 witness: that render has returned, with "A 0" before "B 1".
C11_Witness ==
    /\ pc[1] = "done"
    /\ filePath[1] = Page("items.xml")
    /\ context[1] = CatsContext
    /\ Occurs(result[1].value,
              <<"A", " ", "0", "</", "text", ">", "<", "text", ">", "B", " ", "1">>)

\* The tree of a call has no import, component reference, list or `if` left.
Resolved(h, root) ==
    \A x \in Subtree(h, root) :
        h[x].tag \in (ALL_ELEMENTS \cup {"fragment"}) \ {"import", "list", "if"}

\* fillAllElements, fillProps, handleConditionals and buildXMLString, run on
\* a tree once more: the output, << >> when a pass throws.
Rerun(M, root, ctx) ==
    LET filled == fillAllElements(M, root, ctx)
        props == IF filled.ok THEN fillProps(filled.M, root, 0, ctx) ELSE filled
        conditionals == IF props.ok THEN handleConditionals(props.M, root, ctx)
                        ELSE props
    IN  IF conditionals.ok THEN Rendered(conditionals.M.h, root) ELSE << >>

\* C12: when the three passes are done on a tree with no import, component
\* reference, list or `if` left, running them and buildXMLString again
\* gives the text the first run gives, for every render context.
C12_SecondRunSameText ==
    \A s \in Calls :
        (pc[s] = "build" /\ Resolved(heap.h, rootElement[s]))
            => Rerun(heap, rootElement[s], context[s]) = Rendered(heap.h, rootElement[s])

\* The elements under x (x included) that buildXMLString writes a tag for.
Written(h, x) == {y \in Subtree(h, x) : h[y].tag \notin {"fragment", "import"}}

\* C13: buildXMLString turns an element without children and without text,
\* fragments and imports aside, into the one self-closing tag
\* <tag k="v" .../> with all its attributes and no closing tag; an element
\* with children or text gets one opening tag at the start and one closing
\* tag at the end, and its text has as many closing tags as there are
\* elements with children or text under it, as many self-closing tags as
\* there are elements without.
C13_SelfClosing ==
    \A s \in Calls :
        pc[s] \in {"build", "done"} /\ rootElement[s] # 0 =>
            \A x \in Written(heap.h, rootElement[s]) :
                LET e == heap.h[x]
                    out == buildXMLString(heap.h, x, << >>)
                    open == <<"<", e.tag>> \o AttributeString(e.attributes)
                    close == <<"</", e.tag, ">">>
                    leaves == {y \in Written(heap.h, x) :
                                  Len(heap.h[y].children) = 0
                                  /\ heap.h[y].textContent = << >>}
                IN  IF Len(e.children) = 0 /\ e.textContent = << >>
                    THEN out = open \o <<"/>">> /\ Times(out, "</") = 0
                    ELSE /\ SubSeq(out, 1, Len(open) + 1) = open \o <<">">>
                         /\ SubSeq(out, Len(out) - 2, Len(out)) = close
                         /\ Times(out, "/>") = Cardinality(leaves)
                         /\ Times(out, "</")
                                = Cardinality(Written(heap.h, x) \ leaves)
                         /\ Times(out, "<") = Cardinality(Written(heap.h, x))

\* C13 witness: list.xml is rendered; the output has a self-closing link
\* with its href and a text element with its closing tag.
C13_Witness ==
    /\ pc[1] = "done"
    /\ filePath[1] = Page("list.xml")
    /\ result[1].kind = "return"
    /\ Occurs(result[1].value, <<"<", "link", " ", "href", "=\"", "site", "1", "\"", "/>">>)
    /\ Occurs(result[1].value, <<"</", "text", ">">>)

\* A step of the process keeps what the cache holds, and reads no file for
\* an import whose key the cache has.
CacheLoadedOnceStep ==
    /\ \A k \in DOMAIN cache : k \in DOMAIN cache' /\ cache'[k] = cache[k]
    /\ \A s \in Calls :
           (pc[s] = "load" /\ pc'[s] = "store")
               => Get(heap.h[imports[s][cursor[s]]].attributes, "key") \notin DOMAIN cache

\* C14: an alias is loaded into the cache the first time an import with
\* that alias is met in the process; once the key is there, no import of
\* the alias reads a file again or replaces the stored forest, in this
\* render or a later one, and no key leaves the cache.
C14_LoadedOncePerAlias == [][CacheLoadedOnceStep]_vars

\* The two sites, their pages, and the text of each site's Card.
Sites == {"siteA", "siteB"}
SitePage(site) == Site(site, "page.xml")
CardText(site) == <<"<", "text", ">">> \o Files[Site(site, "Card.xml")].root.children[1].text
                  \o <<"</", "text", ">">>

\* The forest stored under a key reads as the top-level children of the
\* parsed file's root: as many elements, with their tags and texts.
StoredFrom(h, forest, doc) ==
    /\ Len(forest) = Len(doc.root.children)
    /\ \A i \in 1..Len(forest) :
           /\ h[forest[i]].tag = doc.root.children[i].name
           /\ h[forest[i]].textContent = doc.root.children[i].text

SharedCacheStep ==
    \A s \in Calls :
        /\ (pc[s] = "store" /\ pc'[s] = "load") =>
               LET key == Get(heap.h[imports[s][cursor[s]]].attributes, "key")
               IN  /\ key \in DOMAIN cache'
                   /\ StoredFrom(heap'.h, cache'[key], file[s].doc)
                   /\ \A k \in DOMAIN cache \ {key} : cache'[k] = cache[k]
        /\ (pc'[s] = "done" /\ \E site \in Sites : filePath[s] = SitePage(site)) =>
               /\ result'[s].kind = "return"
               /\ \E site \in Sites : Occurs(result'[s].value, CardText(site))

\* C15: the cache is keyed by the alias alone and shared by the calls in
\* flight: whichever call stores under an alias replaces what any call
\* stored there before with the forest of its own file, and a render of a
\* site's page returns output with the Card of one of the two sites, its
\* own or the other's.
C15_CacheSharedByAlias == [][SharedCacheStep]_vars

\* C15 witness: with the page of siteB in flight in the other call, the
\* render of siteA's page has returned output with the Card of siteB.
C15_Witness ==
    /\ pc[1] = "done"
    /\ filePath[1] = SitePage("siteA")
    /\ filePath[2] = SitePage("siteB")
    /\ pc[2] \notin {"idle", "done"}
    /\ result[1].kind = "return"
    /\ Occurs(result[1].value, CardText("siteB"))

\* prerenderComponents is running in call s.
Prerendering(s) ==
    pc[s] = "prerender" \/ (pc[s] = "load" /\ cursor[s] > Len(imports[s]))

\* In the new heap f stands for the reference r of the old heap: a fragment
\* with no attributes, the reference's attributes as props, and copies of
\* the cached forest, in cache order, as children; a copy has the cached
\* element's tag, so a copy of a component reference is a reference still.
Replaces(old, new, f, r) ==
    /\ f \notin DOMAIN old
    /\ IsReference(old[r])
    /\ <<old[r].tag>> \in DOMAIN cache
    /\ new[f].tag = "fragment"
    /\ new[f].attributes = << >>
    /\ new[f].hasProps /\ new[f].props = old[r].attributes
    /\ LET forest == cache[<<old[r].tag>>]
       IN  /\ Len(new[f].children) = Len(forest)
           /\ \A j \in 1..Len(forest) :
                  /\ new[f].children[j] \notin DOMAIN old
                  /\ new[new[f].children[j]].parent = f
                  /\ IsCopy(old, forest[j], new, new[f].children[j])

PrerenderFrameStep ==
    \A s \in Calls :
        Prerendering(s) =>
            LET old == heap.h
                new == heap'.h
            IN  /\ DOMAIN old \subseteq DOMAIN new
                /\ \A x \in DOMAIN old :
                       /\ new[x] = [old[x] EXCEPT !.children = new[x].children]
                       /\ Len(new[x].children) = Len(old[x].children)
                       /\ \A i \in 1..Len(old[x].children) :
                              \/ new[x].children[i] = old[x].children[i]
                              \/ Replaces(old, new, new[x].children[i],
                                          old[x].children[i])

\* C16: a step of prerenderComponents changes the tree in one way only: a
\* component reference gives its place in its parent's children, at the
\* same index, to one new fragment whose props are the reference's
\* attributes and whose children are copies of the cached forest in cache
\* order; every other element keeps its fields and every other child its
\* position; the fragment's new children are as cached, not expanded.
C16_FragmentInPlace == [][PrerenderFrameStep]_vars

\* C16 witness: in nested.xml the reference to Outer has been replaced by
\* a fragment whose second child is the reference to Inner, not expanded
\* in the pass that brought it in.
C16_Witness ==
    /\ pc[1] = "collect"
    /\ filePath[1] = Page("nested.xml")
    /\ safetyBreaker[1] = 1
    /\ LET root == heap.h[rootElement[1]]
           f == root.children[2]
       IN  /\ Len(root.children) = 2
           /\ heap.h[root.children[1]].tag = "import"
           /\ heap.h[f].tag = "fragment"
           /\ heap.h[f].hasProps
           /\ Len(heap.h[f].children) = 2
           /\ heap.h[heap.h[f].children[2]].tag = "Inner"

\* The elements of the forests in a cache.
CacheElements(ch, h) ==
    UNION {UNION {Subtree(h, ch[k][i]) : i \in 1..Len(ch[k])} : k \in DOMAIN ch}

\* No tree of a call reaches an element of a stored forest.
CacheApart(ch, h, roots) ==
    \A r \in roots \ {0} : Subtree(h, r) \cap CacheElements(ch, h) = {}

CacheUntouchedStep ==
    /\ \A k \in DOMAIN cache :
           (k \in DOMAIN cache' /\ cache'[k] = cache[k]) =>
               \A i \in 1..Len(cache[k]) : \A x \in Subtree(heap.h, cache[k][i]) :
                   x \in DOMAIN heap'.h /\ heap'.h[x] = heap.h[x]
    /\ CacheApart(cache, heap.h, Roots(rootElement))
    /\ CacheApart(cache', heap'.h, Roots(rootElement'))

\* C17: as long as a forest is what the cache holds under its alias, no
\* step changes a field of any of its elements, and no element of a stored
\* forest is reachable from the tree of a render: what an expansion puts
\* into a tree are copies.
C17_CacheForestUntouched == [][CacheUntouchedStep]_vars

\* C17 witness: in selfref.xml the alias Loop has been expanded at two
\* sites, one inside the other; the stored forest is the import and the
\* reference it was, and neither fragment holds an element of it.
C17_Witness ==
    /\ pc[1] = "collect"
    /\ filePath[1] = Page("selfref.xml")
    /\ safetyBreaker[1] = 2
    /\ <<"Loop">> \in DOMAIN cache
    /\ LET forest == cache[<<"Loop">>]
           outer == heap.h[rootElement[1]].children[2]
           inner == heap.h[outer].children[2]
       IN  /\ Len(forest) = 2
           /\ heap.h[forest[1]].tag = "import" /\ ~heap.h[forest[1]].imported
           /\ heap.h[forest[2]].tag = "Loop"
           /\ heap.h[outer].tag = "fragment" /\ heap.h[inner].tag = "fragment"
           /\ \A j \in 1..2 : IsCopy(heap.h, forest[j], heap.h, heap.h[inner].children[j])
           /\ Subtree(heap.h, outer) \cap CacheElements(cache, heap.h) = {}

\* The number of places under an element: its own, and every position of
\* a children array of an element reachable from it.  An element that
\* stands in two arrays, or twice in one, has a place for each.
Places(h, x) ==
    1 + Cardinality(UNION {{<<e, i>> : i \in 1..Len(h[e].children)} :
                              e \in Subtree(h, x)})

\* The elements reachable from root form a tree: there are as many places
\* as elements, so every element but the root stands in exactly one
\* children array, once, and the root in none.
ProperTree(h, root) == Places(h, root) = Cardinality(Subtree(h, root))

\* C18: in every state of a render, so after every component expansion,
\* list expansion and conditional pass, the elements reachable from the
\* root form a proper tree: each has one owner and none is its own
\* descendant.
C18_ProperTree ==
    \A s \in Calls : rootElement[s] # 0 => ProperTree(heap.h, rootElement[s])

\* C18 witness: grid.xml, a list in a list, is expanded over two results:
\* the root has the four text elements as children, each one a different
\* element.
C18_Witness ==
    /\ pc[1] = "fill"
    /\ filePath[1] = Page("grid.xml")
    /\ Len(context[1].results.items) = 2
    /\ LET kids == heap.h[rootElement[1]].children
       IN  /\ Len(kids) = 4
           /\ \A i \in 1..4 : heap.h[kids[i]].tag = "text"
           /\ Cardinality({kids[i] : i \in 1..4}) = 4

\* C19: for a component used at the top level of the template, under no
\* fragment and in no list, with the prop written as ${search}, the
\* interior's ${@props.prop} is rendered as the context's value of search.
C19_TopLevelPropEvaluated ==
    \A s \in Calls :
        (pc[s] = "done" /\ filePath[s] = Page("top.xml"))
            => /\ result[s].kind = "return"
               /\ Occurs(result[s].value,
                         <<"<", "text", ">">> \o Stringify(context[s].search)
                         \o <<"</", "text", ">">>)

\* C20: in an element under no fragment and not made by a list expansion,
\* the placeholders ${@item.name}, ${@props.prop} and ${@index}, none of
\* them a key of the context, stay as they are in text and attributes, and
\* the output shows them unchanged.
C20_UnscopedMarkersStay ==
    \A s \in Calls :
        (pc[s] = "done" /\ filePath[s] = Page("loose.xml"))
            => /\ result[s].kind = "return"
               /\ \A w \in {"@item.name", "@props.prop", "@index"} :
                      Occurs(result[s].value,
                             <<"<", "text", ">">> \o Marker(w) \o <<"</", "text", ">">>)
               /\ Occurs(result[s].value,
                         <<"value", "=\"">> \o Marker("@index") \o <<"\"">>)

\* The list's `items` attribute is missing or empty, or names a context
\* entry that is absent, no array, or an array without elements.
RunsOverNothing(e, ctx) ==
    LET items == Get(e.attributes, "items")
    IN  \/ items = << >>
        \/ items[1] \notin DOMAIN ctx
        \/ ~ctx[items[1]].isArray
        \/ ctx[items[1]].items = << >>

EmptyListStep ==
    \A s \in Calls :
        (pc[s] = "expand" /\ cursor'[s] = cursor[s] + 1) =>
            LET list == lists[s][cursor[s]]
                e == heap.h[list]
                parent == e.parent
                before == heap.h[parent].children
                at == IndexOf(before, list)
            IN  (/\ parent # 0
                 /\ parent \in DOMAIN heap'.h
                 /\ at # 0
                 /\ RunsOverNothing(e, context[s])) =>
                    LET after == heap'.h[parent].children
                    IN  /\ Len(after) = Len(before) - 1
                        /\ \A i \in 1..(at - 1) : after[i] = before[i]
                        /\ \A i \in (at + 1)..Len(before) : after[i - 1] = before[i]
                        /\ \A i \in 1..Len(after) : after[i] # list
                        /\ heap'.h[parent] = [heap.h[parent] EXCEPT !.children = after]
                        /\ DOMAIN heap'.h \subseteq DOMAIN heap.h
                        /\ \A x \in DOMAIN heap'.h \ {parent} : heap'.h[x] = heap.h[x]
                        /\ Subtree(heap'.h, rootElement[s])
                               = Subtree(heap.h, rootElement[s])
                                 \ (IF parent \in Subtree(heap.h, rootElement[s])
                                    THEN Subtree(heap.h, list) ELSE {})

\* C21: expanding a list whose `items` attribute is missing, or names a
\* context entry that is absent, no array, or an empty array, takes exactly
\* that list with its subtree out of its parent's children; the parent's
\* other children keep their order and content, and no node is added.
C21_EmptyListRemoved == [][EmptyListStep]_vars

\* C21 witness: of void.xml's four lists the first three, one without
\* `items`, one over an absent entry and one over a string, are gone, and
\* the head, the list over the results and the tail are left.
C21_Witness ==
    /\ pc[1] = "expand"
    /\ filePath[1] = Page("void.xml")
    /\ cursor[1] = 4
    /\ Len(heap.h[rootElement[1]].children) = 3
    /\ heap.h[heap.h[rootElement[1]].children[1]].textContent = <<"head">>
    /\ heap.h[heap.h[rootElement[1]].children[2]].tag = "list"
    /\ Get(heap.h[heap.h[rootElement[1]].children[2]].attributes, "items") = <<"results">>
    /\ heap.h[heap.h[rootElement[1]].children[3]].textContent = <<"tail">>

\* Entries whose root has, among its children, a list with one child that
\* is a list with one child; NestedAt is the index of that outer list.
IsNestedList(x) ==
    /\ x.name = "list" /\ Len(x.children) = 1
    /\ x.children[1].name = "list" /\ Len(x.children[1].children) = 1
    /\ x.children[1].children[1].name # "list"

NestedAt(path) ==
    LET kids == Files[path].root.children
    IN  IF \E k \in 1..Len(kids) : IsNestedList(kids[k])
        THEN CHOOSE k \in 1..Len(kids) :
                 IsNestedList(kids[k]) /\ \A l \in 1..(k - 1) : ~IsNestedList(kids[l])
        ELSE 0

NestedListEntries ==
    {p \in Entries : /\ ~Files[p].isArray
                     /\ NestedAt(p) # 0
                     /\ \A k \in 1..Len(Files[p].root.children) :
                            Files[p].root.children[k].name = "list" => k = NestedAt(p)}

\* The array a list's `items` names in the context, << >> if it names none.
ArrayOf(x, ctx) ==
    LET items == Get(x.attrs, "items")
    IN  IF items # << >> /\ items[1] \in DOMAIN ctx /\ ctx[items[1]].isArray
        THEN ctx[items[1]].items ELSE << >>

RowMajorStep ==
    \A s \in Calls :
        filePath[s] \in NestedListEntries =>
            LET kids == Files[filePath[s]].root.children
                at == NestedAt(filePath[s])
                outer == kids[at]
                inner == outer.children[1]
                T == inner.children[1]
                xs == ArrayOf(outer, context[s])
                ys == ArrayOf(inner, context[s])
                N == Len(xs)
                M == Len(ys)
                root == rootElement[s]
            IN  \* the list loop has ended
                /\ pc'[s] = "fill" =>
                       LET after == heap'.h[root].children
                       IN  /\ Len(after) = Len(kids) - 1 + N * M
                           /\ \A x \in Subtree(heap'.h, root) : heap'.h[x].tag # "list"
                           /\ \A k \in 1..(at - 1) : heap'.h[after[k]].tag = kids[k].name
                           /\ \A k \in (at + 1)..Len(kids) :
                                  heap'.h[after[k - 1 + N * M]].tag = kids[k].name
                           /\ \A i \in 0..(N - 1) : \A j \in 0..(M - 1) :
                                  LET c == heap'.h[after[at + i * M + j]]
                                  IN  /\ c.tag = T.name
                                      /\ c.textContent = T.text
                                      /\ c.attributes = T.attrs
                                      /\ c.parent = root
                                      /\ c.listIndex = j
                                      /\ c.listItem = ys[j + 1]
                \* the copies of the inner list that stands for outer index i
                \* go to the places of row i
                /\ (/\ pc[s] = "expand" /\ cursor'[s] = cursor[s] + 1
                    /\ heap.h[lists[s][cursor[s]]].hasItem
                    /\ heap.h[lists[s][cursor[s]]].parent = root) =>
                       LET i == heap.h[lists[s][cursor[s]]].listIndex
                           after == heap'.h[root].children
                       IN  /\ heap.h[lists[s][cursor[s]]].listItem = xs[i + 1]
                           /\ {k \in 1..Len(after) : after[k] \notin DOMAIN heap.h}
                                  = {at + i * M + j : j \in 0..(M - 1)}

\* C22: for a list over xs whose child is a list over ys with child
\* template T, the list loop leaves, at the outer list's place, |xs|*|ys|
\* copies of T in row-major order: the copies for outer index i stand at the
\* places of row i, with the inner indices 0..|ys|-1 in order, rows in the
\* order of xs; no `list` node is left.
C22_RowMajor == [][RowMajorStep]_vars

\* C22 witness: table.xml over two results and two columns has left the
\* list loop with head, four copies and tail, and the third copy is the
\* one for column 0.
C22_Witness ==
    /\ pc[1] = "fill"
    /\ filePath[1] = Page("table.xml")
    /\ Len(context[1].results.items) = 2
    /\ Len(context[1].cols.items) = 2
    /\ Len(heap.h[rootElement[1]].children) = 6
    /\ heap.h[heap.h[rootElement[1]].children[4]].listIndex = 0
    /\ heap.h[heap.h[rootElement[1]].children[4]].listItem = Column(1)
    /\ heap.h[heap.h[rootElement[1]].children[5]].listItem = Column(2)

\* C23: in Termic.local, when handleConditionals has run, no `if` node with
\* a `condition` attribute is reachable from the root: each has become a
\* fragment or has been removed, also where several `if` siblings in a row
\* are false.
C23_NoConditionalLeft ==
    \A s \in Calls :
        (Termic /\ pc[s] = "build") =>
            \A x \in Subtree(heap.h, rootElement[s]) : ~IsConditional(heap.h, x)

\* The children ids with every fragment replaced by its own children, in
\* order, and the heap in which every children array is rewritten so.
RECURSIVE Inline(_, _)
Inline(h, ids) ==
    IF ids = << >> THEN << >>
    ELSE (IF h[Head(ids)].tag = "fragment"
          THEN Inline(h, h[Head(ids)].children)
          ELSE <<Head(ids)>>)
         \o Inline(h, Tail(ids))

WithoutFragments(h) ==
    [x \in DOMAIN h |-> [h[x] EXCEPT !.children = Inline(h, h[x].children)]]

\* C24: buildXMLString writes no `fragment` tag, and the text it writes for
\* a tree is the text it writes for the tree in which every fragment is
\* replaced, in its parent's children, by the fragment's children in order.
C24_FragmentsTransparent ==
    \A s \in Calls :
        pc[s] = "build" =>
            /\ ~Occurs(buildXMLString(heap.h, rootElement[s], << >>), <<"<", "fragment">>)
            /\ buildXMLString(heap.h, rootElement[s], << >>)
                   = buildXMLString(WithoutFragments(heap.h), rootElement[s], << >>)

\* The code strings that evaluateExpression hands to `new Interpreter` in
\* its second replace, in order; the call ends at the first that throws.
RECURSIVE ComputeCodes(_, _)
ComputeCodes(s, i) ==
    IF i > Len(s) THEN << >>
    ELSE LET j == IF s[i] = "(" THEN FirstAt(s, i + 1, ")") ELSE 0
         IN  IF j >= i + 2
             THEN <<SubSeq(s, i + 1, j - 1)>> \o ComputeCodes(s, j + 1)
             ELSE ComputeCodes(s, i + 1)

CodesOf(expression, h, fragment, ctx) ==
    ComputeCodes(IF Contains(expression, "$", "{")
                 THEN Interpolate(expression, 1, h, fragment, ctx)
                 ELSE expression, 1)

\* The same for one run of fillAllElements: the attributes of a basic
\* element in order, then its text, then its children.
RECURSIVE FillCodes(_, _, _)
FillCodes(h, element, ctx) ==
    LET e == h[element]
        a == IF e.tag \in ALL_BASIC_ELEMENTS
             THEN Flatten([i \in 1..Len(e.attributes) |->
                              CodesOf(e.attributes[i][2], h, element, ctx)])
             ELSE << >>
        t == IF e.textContent # << >> /\ Contains(e.textContent, "$", "{")
             THEN CodesOf(e.textContent, h, element, ctx)
             ELSE << >>
    IN  a \o t \o Flatten([i \in 1..Len(e.children) |->
                              FillCodes(h, e.children[i], ctx)])

UpToThrow(codes) ==
    IF \E i \in 1..Len(codes) : ~Interpreter(codes[i]).ok
    THEN SubSeq(codes, 1, CHOOSE i \in 1..Len(codes) :
                              /\ ~Interpreter(codes[i]).ok
                              /\ \A j \in 1..(i - 1) : Interpreter(codes[j]).ok)
    ELSE codes

\* Two contexts with the same keys that differ in their strings only.
SameButStrings(ctx1, ctx2) ==
    /\ DOMAIN ctx1 = DOMAIN ctx2
    /\ \A k \in DOMAIN ctx1 :
           /\ ctx1[k].isArray = ctx2[k].isArray
           /\ ctx1[k].isArray => ctx1[k] = ctx2[k]

\* C25: the code handed to the interpreter comes from the template alone:
\* where fillAllElements, the first pass that evaluates expressions, is
\* about to run on a tree, the code strings it passes to `new Interpreter`
\* are the same for the call's context and for every context with the same
\* keys that differs from it in string values only.
C25_CodeFromTemplateOnly ==
    \A s \in Calls :
        pc[s] = "fill" =>
            \A ctx2 \in ContextsOf(filePath[s]) :
                SameButStrings(context[s], ctx2) =>
                    UpToThrow(FillCodes(heap.h, rootElement[s], context[s]))
                        = UpToThrow(FillCodes(heap.h, rootElement[s], ctx2))

\* Entries that refer to components and have no import at all.
ImportlessEntries ==
    {p \in Entries : ~Files[p].isArray /\ ReferencesOf(p) # {} /\ ImportsOf(p) = {}
                     /\ \A x \in ElementsOf(p) : x.name # "import"}

\* What Card.xml's forest is written as under a fragment with prop `plain`.
PlainCard ==
    <<"<", "container", ">", "<", "text", ">", "plain", "</", "text", ">",
      "</", "container", ">">>

\* C26: a render of a template that refers to the tag Card without any
\* import does not fail with the unresolved-component error when an earlier
\* render of the process has left a forest under Card in the cache: it
\* returns output with the reference expanded from that forest.  With no
\* such entry in the cache the same render throws.
C26_CacheOutlivesRender ==
    \A s \in Calls :
        (/\ pc[s] = "done"
         /\ filePath[s] \in ImportlessEntries
         /\ ReferencesOf(filePath[s]) = {"Card"}) =>
            IF <<"Card">> \in DOMAIN cache
            THEN /\ result[s].kind = "return"
                 /\ Occurs(result[s].value, PlainCard)
            ELSE result[s] = Thrown(ImportNotFound)

\* C26 witness: the second render of the process, of cardonly.xml, has
\* returned output with the card in it.
C26_Witness ==
    /\ pc[1] = "done"
    /\ rendersLeft = 0
    /\ filePath[1] = Page("cardonly.xml")
    /\ filePath[1] \in ImportlessEntries
    /\ result[1].kind = "return"
    /\ Occurs(result[1].value, PlainCard)

\* The import nodes of a call's tree that loadImports has gone through, and
\* the file each of them names.
LoadedImports(h, root) ==
    {x \in Subtree(h, root) : h[x].tag = "import" /\ h[x].imported}

ImportFile(h, x, entry) ==
    ResolvePath(IF h[x].fromOrigin # << >> THEN h[x].fromOrigin ELSE entry,
                Get(h[x].attributes, "from"))

NoRollbackStep ==
    \A s \in Calls :
        /\ (/\ pc[s] # "done" /\ pc'[s] = "done"
            /\ result'[s] \in {Thrown(ImportNotFound), Thrown(SafetyBreakerReached)}) =>
               /\ cache' = cache
               /\ \A x \in LoadedImports(heap.h, rootElement[s]) :
                      LET key == Get(heap.h[x].attributes, "key")
                      IN  /\ key \in DOMAIN cache'
                          /\ \E y \in LoadedImports(heap.h, rootElement[s]) :
                                 /\ Get(heap.h[y].attributes, "key") = key
                                 /\ StoredFrom(heap'.h, cache'[key],
                                               Files[ImportFile(heap.h, y, filePath[s])])
        /\ (pc[s] = "done" /\ pc'[s] # "done") => cache' = cache

\* C27: a render that ends with the unresolved-component error or with
\* the safety breaker leaves the cache as the render made it: the step that
\* throws does not change the cache, every alias the render stored is a
\* key of it with the forest of a file the render loaded under that alias,
\* and handing the error to the caller changes nothing either.
C27_NoRollback == [][NoRollbackStep]_vars

\* C27 witness: the render of late.xml has thrown the unresolved-component
\* error for <Inner/>, and the forest it stored under Outer is in the cache.
C27_Witness ==
    /\ pc[1] = "done"
    /\ filePath[1] = Page("late.xml")
    /\ result[1] = Thrown(ImportNotFound)
    /\ <<"Outer">> \in DOMAIN cache
    /\ StoredFrom(heap.h, cache[<<"Outer">>], Files[Page("Outer.xml")])
    /\ LoadedImports(heap.h, rootElement[1]) # {}

\* C28: every node reachable from the root, the root aside, has a parent,
\* and the parent is the node whose children hold it; fragments made by
\* component expansion and copies made by list expansion included.
C28_ParentIsOwner ==
    \A s \in Calls :
        rootElement[s] # 0 =>
            \A x \in Subtree(heap.h, rootElement[s]) \ {rootElement[s]} :
                /\ heap.h[x].parent # 0
                /\ heap.h[x].parent \in DOMAIN heap.h
                /\ IndexOf(heap.h[heap.h[x].parent].children, x) # 0

MaxOf(S) == IF S = {} THEN 0 ELSE CHOOSE m \in S : \A n \in S : n <= m

\* The deepest nesting of `list` nodes at or under an element of a tree.
RECURSIVE ListDepth(_, _)
ListDepth(h, x) ==
    (IF h[x].tag = "list" THEN 1 ELSE 0)
    + MaxOf({ListDepth(h, h[x].children[i]) : i \in 1..Len(h[x].children)})

\* The same read off the files: a component reference counts as the forest
\* of the file its tag is imported from, through n references at most.
RECURSIVE NestingOf(_, _)
NestingOf(x, n) ==
    IF x.name \notin ALL_ELEMENTS \cup {"fragment"}
    THEN IF n = 0 THEN 0
         ELSE MaxOf({NestingOf(y, n - 1) :
                        y \in UNION {{Files[f].root.children[i] :
                                          i \in 1..Len(Files[f].root.children)} :
                                     f \in FilesOfKey(<<x.name>>)}})
    ELSE (IF x.name = "list" THEN 1 ELSE 0)
         + MaxOf({NestingOf(x.children[i], n) : i \in 1..Len(x.children)})

ListNesting(path) == NestingOf(Files[path].root, 3)

InListLoop(p) == p \in {"lists", "findlists", "expand"}

ListLoopStep ==
    \A s \in Calls :
        LET d == ListNesting(filePath[s])
        IN  \* d is the nesting of the tree the list loop starts on
            /\ (pc[s] = "loop" /\ pc'[s] = "lists") =>
                   /\ ListDepth(heap'.h, rootElement[s]) = d
                   /\ d <= SafetyCeiling
            \* the counter of the loop counts its iterations
            /\ (InListLoop(pc'[s]) \/ pc'[s] = "fill") => safetyBreaker'[s] <= d + 1
            \* the loop is left for fillAllElements and not by a throw
            /\ InListLoop(pc[s]) => (InListLoop(pc'[s]) \/ pc'[s] = "fill")

\* C29: for a tree whose deepest nesting of `list` nodes is d, the list
\* loop ends after at most d + 1 iterations, whatever the context holds,
\* and goes on to fillAllElements without raising the safety breaker.
C29_ListLoopWithinDepth == [][ListLoopStep]_vars

\* C29 witness: the three nested lists of cube.xml, over two results, are
\* expanded and the loop has ended after its fourth iteration.
C29_Witness ==
    /\ pc[1] = "fill"
    /\ filePath[1] = Page("cube.xml")
    /\ ListNesting(filePath[1]) = 3
    /\ Len(context[1].results.items) = 2
    /\ safetyBreaker[1] = 4
    /\ Len(heap.h[rootElement[1]].children) = 4
    /\ ListDepth(heap.h, rootElement[1]) = 0

CallSiteDroppedStep ==
    \A s \in Calls :
        Prerendering(s) =>
            LET old == heap.h
                new == heap'.h
                root == rootElement[s]
            IN  \A r \in Subtree(old, root) :
                    LET p == old[r].parent
                        i == IF p = 0 THEN 0 ELSE IndexOf(old[p].children, r)
                    IN  (/\ IsReference(old[r])
                         /\ Len(old[r].children) > 0 \/ old[r].textContent # << >>
                         \* the step has expanded r
                         /\ i # 0
                         /\ new[p].children[i] # r) =>
                            LET f == new[p].children[i]
                            IN  /\ Subtree(old, r) \cap Subtree(new, root) = {}
                                /\ new[f].tag = "fragment"
                                /\ new[f].textContent = << >>
                                /\ Subtree(new, f) \cap DOMAIN old = {}
                                /\ Len(new[f].children) = Len(cache[<<old[r].tag>>])
                                /\ \A j \in 1..Len(new[f].children) :
                                       IsCopy(old, cache[<<old[r].tag>>][j],
                                              new, new[f].children[j])

\* C30: when a component reference with children or text of its own is
\* expanded, that content is dropped: the fragment at its place holds
\* copies of the cached forest and nothing else, no text either, and
\* neither the reference nor any of its descendants is reachable from the
\* root afterwards.
C30_CallSiteContentDropped == [][CallSiteDroppedStep]_vars

\* C30 witness: the reference of slot.xml, which had the text `inside`
\* and <Ghost/> as children, has been expanded; the root holds the import
\* and a fragment with the copy of Card.xml's container, and the text
\* `inside` is an element no path from the root leads to.
C30_Witness ==
    /\ pc[1] = "collect"
    /\ filePath[1] = Page("slot.xml")
    /\ Len(heap.h[rootElement[1]].children) = 2
    /\ LET f == heap.h[rootElement[1]].children[2]
       IN  /\ heap.h[f].tag = "fragment"
           /\ Len(heap.h[f].children) = 1
           /\ heap.h[heap.h[f].children[1]].tag = "container"
    /\ \A x \in Subtree(heap.h, rootElement[1]) :
           heap.h[x].textContent # <<"inside">> /\ heap.h[x].tag # "Ghost"
    /\ \E x \in DOMAIN heap.h : heap.h[x].textContent = <<"inside">>

====
